---- MODULE Spec2Model ----
(***************************************************************************)
(* A model of the everscale-vm core: the opcode dispatch table and its     *)
(* builder (vm/src/dispatch.rs), the VM state machine with its gas meter   *)
(* (src/state.rs) and the arithmetic instruction family                    *)
(* (src/instr/arithops.rs).                                                *)
(***************************************************************************)
EXTENDS Integers, Sequences, FiniteSets, TLC

VARIABLES
    opcodes,    \* Opcodes.opcodes: the builder's BTreeMap, range start -> handler
    table,      \* DispatchTable.opcodes: the built array (<<>> before build)
    last,       \* the last builder operation and its outcome
    found       \* the last DispatchTable::lookup: the opcode and the index returned

(***************************************************************************)
(* Program constants of vm/src/dispatch.rs.                                *)
(***************************************************************************)
MAX_OPCODE_BITS == 24
MAX_OPCODE == 2 ^ MAX_OPCODE_BITS
GAS_PER_INSTRUCTION == 10
GAS_PER_BIT == 1

(***************************************************************************)
(* Bounds of the model.                                                    *)
(***************************************************************************)
\* the largest opcode prefix registered on the builder under test
MaxPrefix == 3
\* VmState.steps is counted up to this value and stays there
MaxSteps == 8
\* the host calls at most this many operations on a VmState one after another
MaxOps == 3

\* the prefix lengths and argument lengths registered on the builder under test
PrefixBits == {8}
ArgBits == {0}

(***************************************************************************)
(* Helpers.                                                                *)
(***************************************************************************)
Min(S) == CHOOSE x \in S : \A y \in S : x <= y
Max(S) == CHOOSE x \in S : \A y \in S : y <= x

\* F applied to the value of e: a statement sequence `let x = e; F(x)`
Then(e, F(_)) == CHOOSE r \in {F(x) : x \in {e}} : TRUE

\* x << n and x >> n on unsigned words
Shl(x, n) == x * (2 ^ n)
Shr(x, n) == x \div (2 ^ n)

(***************************************************************************)
(* Opcode handlers: the four implementations of the Opcode trait. `bits`   *)
(* is SimpleOpcode.opcode_bits or Fixed/ExtOpcode.total_bits; `exec` names *)
(* the handler function.                                                   *)
(***************************************************************************)
DummyOpcode(min, max) ==
    [kind |-> "dummy", opcode_min |-> min, opcode_max |-> max, bits |-> 0, exec |-> "none"]

SimpleOpcode(min, max, bits, exec) ==
    [kind |-> "simple", opcode_min |-> min, opcode_max |-> max, bits |-> bits, exec |-> exec]

FixedOpcode(min, max, total_bits, exec) ==
    [kind |-> "fixed", opcode_min |-> min, opcode_max |-> max, bits |-> total_bits, exec |-> exec]

ExtOpcode(min, max, total_bits, exec) ==
    [kind |-> "ext", opcode_min |-> min, opcode_max |-> max, bits |-> total_bits, exec |-> exec]

\* Opcode::range
range(op) == <<op.opcode_min, op.opcode_max>>

(***************************************************************************)
(* Opcodes (the builder).                                                  *)
(***************************************************************************)
\* BTreeMap::insert
MapInsert(m, k, v) == [x \in (DOMAIN m) \cup {k} |-> IF x = k THEN v ELSE m[x]]

\* add_opcode without its check against the previous entry
add_opcode_no_prev_check(m, opcode) ==
    LET min == range(opcode)[1]
        max == range(opcode)[2]
        above == {k \in DOMAIN m : k >= min}
        next_ok == above = {} \/ max <= Min(above)
    IN  IF ~next_ok THEN [ok |-> FALSE, err |-> "next_min", opcodes |-> m]
        ELSE [ok |-> TRUE, err |-> "none", opcodes |-> MapInsert(m, min, opcode)]

\* Opcodes::add_opcode: the result and the map afterwards.
add_opcode(m, opcode) ==
    LET min == range(opcode)[1]
        max == range(opcode)[2]
        above == {k \in DOMAIN m : k >= min}      \* self.opcodes.range(min..)
        below == {k \in DOMAIN m : k <= min}      \* self.opcodes.range(..=min)
        next_ok == above = {} \/ max <= Min(above)
        prev_ok == below = {} \/ range(m[Max(below)])[2] <= min
    IN  IF ~next_ok THEN [ok |-> FALSE, err |-> "next_min", opcodes |-> m]
        ELSE IF ~prev_ok THEN [ok |-> FALSE, err |-> "prev_max", opcodes |-> m]
        ELSE [ok |-> TRUE, err |-> "none", opcodes |-> MapInsert(m, min, opcode)]

add_simple(m, opcode, bits, exec) ==
    LET remaining_bits == MAX_OPCODE_BITS - bits
    IN  add_opcode(m, SimpleOpcode(Shl(opcode, remaining_bits),
                                   Shl(opcode + 1, remaining_bits), bits, exec))

add_fixed(m, opcode, opcode_bits, arg_bits, exec) ==
    LET remaining_bits == MAX_OPCODE_BITS - opcode_bits
    IN  add_opcode(m, FixedOpcode(Shl(opcode, remaining_bits),
                                  Shl(opcode + 1, remaining_bits),
                                  opcode_bits + arg_bits, exec))

add_fixed_range(m, opcode_min, opcode_max, total_bits, arg_bits, exec) ==
    LET remaining_bits == MAX_OPCODE_BITS - total_bits
    IN  add_opcode(m, FixedOpcode(Shl(opcode_min, remaining_bits),
                                  Shl(opcode_max, remaining_bits), total_bits, exec))

add_ext(m, opcode, opcode_bits, arg_bits, exec) ==
    LET remaining_bits == MAX_OPCODE_BITS - opcode_bits
    IN  add_opcode(m, ExtOpcode(Shl(opcode, remaining_bits),
                                Shl(opcode + 1, remaining_bits),
                                opcode_bits + arg_bits, exec))

add_ext_range(m, opcode_min, opcode_max, total_bits, exec) ==
    LET remaining_bits == MAX_OPCODE_BITS - total_bits
    IN  add_opcode(m, ExtOpcode(Shl(opcode_min, remaining_bits),
                                Shl(opcode_max, remaining_bits), total_bits, exec))

\* The loop of Opcodes::build over the map's keys in ascending order.
RECURSIVE BuildLoop(_, _, _, _)
BuildLoop(m, keys, upto, acc) ==
    IF keys = {} THEN [upto |-> upto, opcodes |-> acc]
    ELSE LET k == Min(keys)
             opcode == m[k]
             min == range(opcode)[1]
             max == range(opcode)[2]
             filled == IF min > upto
                       THEN Append(acc, <<upto, DummyOpcode(upto, min)>>)
                       ELSE acc
         IN  Then(Append(filled, <<k, opcode>>),
                  LAMBDA pushed : BuildLoop(m, keys \ {k}, max, pushed))

\* build without the dummy entry after the last registered range
build_no_tail(m) == BuildLoop(m, DOMAIN m, 0, <<>>).opcodes

\* Opcodes::build: the entries of the DispatchTable.
build(m) ==
    Then(BuildLoop(m, DOMAIN m, 0, <<>>),
         LAMBDA r : IF r.upto < MAX_OPCODE
                    THEN Append(r.opcodes, <<r.upto, DummyOpcode(r.upto, MAX_OPCODE)>>)
                    ELSE r.opcodes)

(***************************************************************************)
(* DispatchTable.                                                          *)
(***************************************************************************)
\* The binary search of DispatchTable::lookup; i and j are the code's
\* 0-based indices, the sequence is 1-based.
RECURSIVE LookupLoop(_, _, _, _)
LookupLoop(t, opcode, i, j) ==
    IF j - i > 1
    THEN Then(Shr(j + i, 1), LAMBDA k :
            IF t[k + 1][1] <= opcode
            THEN LookupLoop(t, opcode, k, j)
            ELSE LookupLoop(t, opcode, i, k))
    ELSE i

\* DispatchTable::lookup, as the 0-based index of the entry it returns
lookup_index(t, opcode) == LookupLoop(t, opcode, 0, Len(t))

\* DispatchTable::lookup
lookup(t, opcode) == t[lookup_index(t, opcode) + 1][2]

(***************************************************************************)
(* Values: cells, slices, stack values, continuations, control registers.  *)
(***************************************************************************)
\* Option<Cell>::None
NoCell == [hash |-> -1, level |-> 0, depth |-> 0, bits |-> <<>>, refs |-> <<>>]

\* a cell: its representation hash, level and depth, data bits and references
Cell(hash, level, depth, bits, refs) ==
    [hash |-> hash, level |-> level, depth |-> depth, bits |-> bits, refs |-> refs]

\* Cell::empty_cell
EmptyCell == Cell(0, 0, 0, <<>>, <<>>)

\* OwnedCellSlice: the data bits and the references not yet read
Slice(bits, refs) == [bits |-> bits, refs |-> refs]

\* OwnedCellSlice::default
EmptySlice == Slice(<<>>, <<>>)

\* OwnedCellSlice::from(Cell)
SliceOf(cell) == Slice(cell.bits, cell.refs)

\* stack values. An integer is h * 2^255 + v, with v far below 2^255 in
\* absolute value: the integers near 0 have h = 0, and the integers next to
\* the bounds -2^256 and 2^256 are written with h = -2 and h = 2.
IntVal(v) == [t |-> "int", v |-> v, h |-> 0]
BigVal(h, v) == [t |-> "int", v |-> v, h |-> h]
NaN == [t |-> "nan", v |-> 0, h |-> 0]

\* a BigInt before it is stored: q * 2^510 + h * 2^255 + v
Raw(q, h, v) == [q |-> q, h |-> h, v |-> v]
RawOf(x) == Raw(0, x.h, x.v)

\* BigInt arithmetic: +=, -=, unary -, *=
BigAdd(x, y) == Raw(x.q + y.q, x.h + y.h, x.v + y.v)
BigSub(x, y) == Raw(x.q - y.q, x.h - y.h, x.v - y.v)
BigNeg(x) == Raw(-x.q, -x.h, -x.v)
BigMul(x, y) == Raw(x.h * y.h, x.h * y.v + x.v * y.h, x.v * y.v)

\* the value fits a signed 257-bit integer: it lies in [-2^256, 2^256)
fits_257(x) ==
    /\ x.q = 0
    /\ \/ x.h \in -1..1
       \/ x.h = -2 /\ x.v >= 0
       \/ x.h = 2 /\ x.v < 0

\* Option<u16>::None and Option<Rc<Stack>>::None
NoArgs == -1
NoStack == [some |-> FALSE, items |-> <<>>]
SomeStack(items) == [some |-> TRUE, items |-> items]

\* Option<RcCont>::None
NoCont == [type |-> "none"]

\* ControlRegs::default
EmptyRegs == [c |-> <<NoCont, NoCont, NoCont, NoCont>>, d |-> <<NoCell, NoCell>>, c7 |-> NoStack]

\* QuitCont, ExcQuitCont and OrdCont
QuitCont(exit_code) == [type |-> "quit", exit_code |-> exit_code]
ExcQuitCont == [type |-> "excquit"]
OrdCont(code, data) == [type |-> "ord", code |-> code, data |-> data]

\* ControlData
ControlData(nargs, stack, save, cp) ==
    [nargs |-> nargs, stack |-> stack, save |-> save, cp |-> cp]

\* OrdCont::simple
OrdContSimple(code, cp) == OrdCont(code, ControlData(NoArgs, NoStack, EmptyRegs, cp))

\* the thread-local QUIT0, QUIT1 and EXC_QUIT
QUIT0 == QuitCont(0)
QUIT1 == QuitCont(1)
EXC_QUIT == ExcQuitCont

\* Cont::get_control_data: only an ordinary continuation carries control data
HasControlData(cont) == cont.type = "ord"

\* ControlRegs::preclear: every slot set in save is cleared
preclear(cr, save) ==
    [c |-> [i \in 1..4 |-> IF save.c[i] # NoCont THEN NoCont ELSE cr.c[i]],
     d |-> [i \in 1..2 |-> IF save.d[i] # NoCell THEN NoCell ELSE cr.d[i]],
     c7 |-> IF save.c7.some THEN NoStack ELSE cr.c7]

\* ControlRegs::merge: every slot set in src is adopted where ours is empty
merge(cr, src) ==
    [c |-> [i \in 1..4 |-> IF src.c[i] # NoCont /\ cr.c[i] = NoCont THEN src.c[i] ELSE cr.c[i]],
     d |-> [i \in 1..2 |-> IF src.d[i] # NoCell /\ cr.d[i] = NoCell THEN src.d[i] ELSE cr.d[i]],
     c7 |-> IF src.c7.some /\ ~cr.c7.some THEN src.c7 ELSE cr.c7]

(***************************************************************************)
(* Errors and exit codes.                                                  *)
(***************************************************************************)
\* VmException::from(&error) as i32: the exception number of an error.
\* Error::Cancelled is what GasConsumer::try_consume fails with.
ExceptionCode(err) ==
    CASE err = "StackUnderflow" -> 2
      [] err = "StackOverflow" -> 3
      [] err = "IntegerOverflow" -> 4
      [] err = "RangeCheckError" -> 5
      [] err = "InvalidOpcode" -> 6
      [] err = "TypeCheckError" -> 7
      [] err = "CellOverflow" -> 8
      [] err = "CellUnderflow" -> 9
      [] err = "Cancelled" -> 13

\* !n on i32
Not(n) == -n - 1

\* VmException::as_exit_code
as_exit_code(code) == Not(code)

\* results of the fallible operations: Ok(val) or Err(err), with the state
\* the operation leaves behind
Ok(st, val) == [ok |-> TRUE, val |-> val, err |-> "none", st |-> st]
Err(st, err) == [ok |-> FALSE, val |-> 0, err |-> err, st |-> st]

(***************************************************************************)
(* GasConsumer.                                                            *)
(***************************************************************************)
BUILD_CELL_GAS == 500
NEW_CELL_GAS == 100
OLD_CELL_GAS == 25

\* GasConsumer::default
DefaultGas == [gas_remaining |-> 0, loaded_cells |-> {}]

\* try_consume that takes what is left when the amount is not covered
try_consume_saturating(gas, amount) ==
    IF gas.gas_remaining >= amount
    THEN [ok |-> TRUE, gas |-> [gas EXCEPT !.gas_remaining = gas.gas_remaining - amount]]
    ELSE [ok |-> FALSE, gas |-> [gas EXCEPT !.gas_remaining = 0]]

\* GasConsumer::try_consume
try_consume(gas, amount) ==
    IF gas.gas_remaining >= amount       \* checked_sub
    THEN [ok |-> TRUE, gas |-> [gas EXCEPT !.gas_remaining = gas.gas_remaining - amount]]
    ELSE [ok |-> FALSE, gas |-> gas]

\* consume_load_cell that inserts the hash whatever the mode
consume_load_cell_marking_always(gas, cell, use_gas) ==
    LET marked == [gas EXCEPT !.loaded_cells = gas.loaded_cells \cup {cell.hash}]
    IN  IF use_gas
        THEN try_consume(marked, IF cell.hash \notin gas.loaded_cells
                                 THEN NEW_CELL_GAS ELSE OLD_CELL_GAS)
        ELSE [ok |-> TRUE, gas |-> marked]

\* GasConsumerContext::consume_load_cell: the hash is inserted, then charged
consume_load_cell(gas, cell, use_gas) ==
    IF use_gas
    THEN LET amount == IF cell.hash \notin gas.loaded_cells
                       THEN NEW_CELL_GAS ELSE OLD_CELL_GAS
             marked == [gas EXCEPT !.loaded_cells = gas.loaded_cells \cup {cell.hash}]
         IN  try_consume(marked, amount)
    ELSE [ok |-> TRUE, gas |-> gas]

\* GasConsumerContext::load_cell
load_cell(gas, cell, use_gas) == consume_load_cell(gas, cell, use_gas)

\* GasConsumerContext::finalize_cell
finalize_cell(gas) == try_consume(gas, BUILD_CELL_GAS)

(***************************************************************************)
(* Stack.                                                                  *)
(***************************************************************************)
\* Stack::depth
Depth(items) == Len(items)

\* the top n items, in their order
TopItems(items, n) == SubSeq(items, Len(items) - n + 1, Len(items))

\* Stack::drop_bottom: the stack without its n lowest items
drop_bottom(items, n) == SubSeq(items, n + 1, Len(items))

\* Stack::move_from_stack: the top n items of other moved on top of items
move_from_stack(items, other, n) == items \o TopItems(other, n)

\* Stack::split_top: the top n items split off
split_top(items, n) ==
    [rest |-> SubSeq(items, 1, Len(items) - n), top |-> TopItems(items, n)]

\* Stack::pop_int_or_nan: the top item is removed; some tells an integer
\* from NaN
pop_int_or_nan(items) ==
    IF items = <<>>
    THEN [ok |-> FALSE, err |-> "StackUnderflow", some |-> FALSE, x |-> NaN, items |-> items]
    ELSE [ok |-> TRUE, err |-> "none", some |-> items[Len(items)].t = "int",
          x |-> items[Len(items)], items |-> SubSeq(items, 1, Len(items) - 1)]

\* Stack::push_nan
push_nan(items) == [ok |-> TRUE, err |-> "none", items |-> Append(items, NaN)]

\* push_raw_int that stores the value whatever its size
push_raw_int_unbounded(items, x, quiet) ==
    [ok |-> TRUE, err |-> "none", items |-> Append(items, BigVal(x.h, x.v))]

\* Stack::push_raw_int: the 257-bit bound is enforced on push
push_raw_int(items, x, quiet) ==
    IF fits_257(x)
    THEN [ok |-> TRUE, err |-> "none", items |-> Append(items, BigVal(x.h, x.v))]
    ELSE IF quiet THEN push_nan(items)
    ELSE [ok |-> FALSE, err |-> "IntegerOverflow", items |-> items]

(***************************************************************************)
(* VmState: [code, stack, cr, commited_state, steps, gas, cp]; quit0 and   *)
(* quit1 are QUIT0 and QUIT1.                                              *)
(***************************************************************************)
MAX_DATA_DEPTH == 512

\* the id of codepage0 and the codepages instr::codepage knows
CP0 == 0
KnownCodepages == {CP0}

\* Option<CommitedState>
NoCommit == [some |-> FALSE, c4 |-> NoCell, c5 |-> NoCell]
CommitedState(c4, c5) == [some |-> TRUE, c4 |-> c4, c5 |-> c5]

\* VmState::adjust_cr and VmState::preclear_cr
adjust_cr(s, save) == [s EXCEPT !.cr = merge(s.cr, save)]
preclear_cr(s, save) == [s EXCEPT !.cr = preclear(s.cr, save)]

\* VmState::set_code with force_cp: the code is set, then the codepage looked
\* up; s.cp is the id of the table the state refers to
set_code(s, code, cp) ==
    IF cp \in KnownCodepages
    THEN Ok([s EXCEPT !.code = code, !.cp = cp], 0)
    ELSE Err([s EXCEPT !.code = code], "InvalidOpcode")

\* Cont::jump of the three continuation kinds
cont_jump(s, cont) ==
    CASE cont.type = "quit" -> Ok(s, Not(cont.exit_code))
      [] cont.type = "excquit" ->
            \* pops the exception number (pop_smallint_range(0, 0xffff))
            IF s.stack = <<>> THEN Err(s, "StackUnderflow")
            ELSE Then([s EXCEPT !.stack = SubSeq(s.stack, 1, Len(s.stack) - 1)],
                      LAMBDA popped :
                        LET top == s.stack[Len(s.stack)]
                        IN  IF top.t # "int" THEN Err(popped, "TypeCheckError")
                            ELSE IF top.h # 0 \/ top.v < 0 \/ top.v > 65535
                            THEN Err(popped, "RangeCheckError")
                            ELSE Ok(popped, Not(top.v)))
      [] cont.type = "ord" ->
            Then(adjust_cr(s, cont.data.save),
                 LAMBDA adjusted : set_code(adjusted, cont.code, cont.data.cp))

\* unwrap_or_default of an Option<u16>
OrZero(n) == IF n = NoArgs THEN 0 ELSE n

\* jump_ext that drops next_depth items from the bottom instead of
\* current_depth - next_depth
jump_ext_drop_next(s, cont, pass_args) ==
    IF HasControlData(cont)
    THEN LET control_data == cont.data
             current_depth == Depth(s.stack)
         IN  IF ~(OrZero(pass_args) <= current_depth /\ OrZero(control_data.nargs) <= current_depth)
             THEN Err(s, "StackUnderflow")
             ELSE IF pass_args # NoArgs /\ ~(OrZero(control_data.nargs) <= pass_args)
             THEN Err(s, "StackUnderflow")
             ELSE LET next_depth == IF control_data.nargs # NoArgs THEN control_data.nargs
                                    ELSE IF pass_args # NoArgs THEN pass_args
                                    ELSE current_depth
                      cont_stack == control_data.stack
                  IN  Then(preclear_cr(s, control_data.save), LAMBDA s1 :
                      Then(IF cont_stack.some /\ cont_stack.items # <<>>
                           THEN [s1 EXCEPT !.stack =
                                    move_from_stack(cont_stack.items, s1.stack, next_depth)]
                           ELSE IF next_depth < current_depth
                           THEN [s1 EXCEPT !.stack = drop_bottom(s1.stack, next_depth)]
                           ELSE s1, LAMBDA s2 :
                        cont_jump(s2, cont)))
    ELSE IF pass_args # NoArgs
    THEN IF Depth(s.stack) < pass_args
         THEN Err(s, "StackUnderflow")
         ELSE Then(IF Depth(s.stack) - pass_args > 0
                   THEN [s EXCEPT !.stack = drop_bottom(s.stack, pass_args)]
                   ELSE s, LAMBDA s1 :
                cont_jump(s1, cont))
    ELSE cont_jump(s, cont)

\* jump_ext whose next depth is pass_args before nargs
jump_ext_pass_args_first(s, cont, pass_args) ==
    IF HasControlData(cont)
    THEN LET control_data == cont.data
             current_depth == Depth(s.stack)
         IN  IF ~(OrZero(pass_args) <= current_depth /\ OrZero(control_data.nargs) <= current_depth)
             THEN Err(s, "StackUnderflow")
             ELSE IF pass_args # NoArgs /\ ~(OrZero(control_data.nargs) <= pass_args)
             THEN Err(s, "StackUnderflow")
             ELSE LET next_depth == IF pass_args # NoArgs THEN pass_args
                                    ELSE IF control_data.nargs # NoArgs THEN control_data.nargs
                                    ELSE current_depth
                      cont_stack == control_data.stack
                  IN  Then(preclear_cr(s, control_data.save), LAMBDA s1 :
                      Then(IF cont_stack.some /\ cont_stack.items # <<>>
                           THEN [s1 EXCEPT !.stack =
                                    move_from_stack(cont_stack.items, s1.stack, next_depth)]
                           ELSE IF next_depth < current_depth
                           THEN [s1 EXCEPT !.stack =
                                    drop_bottom(s1.stack, current_depth - next_depth)]
                           ELSE s1, LAMBDA s2 :
                        cont_jump(s2, cont)))
    ELSE IF pass_args # NoArgs
    THEN IF Depth(s.stack) < pass_args       \* checked_sub
         THEN Err(s, "StackUnderflow")
         ELSE LET depth_diff == Depth(s.stack) - pass_args
              IN  Then(IF depth_diff > 0
                       THEN [s EXCEPT !.stack = drop_bottom(s.stack, depth_diff)]
                       ELSE s, LAMBDA s1 :
                    cont_jump(s1, cont))
    ELSE cont_jump(s, cont)

\* jump_ext that clears the registers cont saves before it checks the depths
jump_ext_preclear_first(s0, cont, pass_args) ==
    IF HasControlData(cont)
    THEN LET control_data == cont.data
             s == preclear_cr(s0, control_data.save)
             current_depth == Depth(s.stack)
         IN  IF ~(OrZero(pass_args) <= current_depth /\ OrZero(control_data.nargs) <= current_depth)
             THEN Err(s, "StackUnderflow")
             ELSE IF pass_args # NoArgs /\ ~(OrZero(control_data.nargs) <= pass_args)
             THEN Err(s, "StackUnderflow")
             ELSE LET next_depth == IF control_data.nargs # NoArgs THEN control_data.nargs
                                    ELSE IF pass_args # NoArgs THEN pass_args
                                    ELSE current_depth
                      cont_stack == control_data.stack
                  IN  Then(preclear_cr(s, control_data.save), LAMBDA s1 :
                      Then(IF cont_stack.some /\ cont_stack.items # <<>>
                           THEN [s1 EXCEPT !.stack =
                                    move_from_stack(cont_stack.items, s1.stack, next_depth)]
                           ELSE IF next_depth < current_depth
                           THEN [s1 EXCEPT !.stack =
                                    drop_bottom(s1.stack, current_depth - next_depth)]
                           ELSE s1, LAMBDA s2 :
                        cont_jump(s2, cont)))
    ELSE IF pass_args # NoArgs
    THEN IF Depth(s0.stack) < pass_args       \* checked_sub
         THEN Err(s0, "StackUnderflow")
         ELSE LET depth_diff == Depth(s0.stack) - pass_args
              IN  Then(IF depth_diff > 0
                       THEN [s0 EXCEPT !.stack = drop_bottom(s0.stack, depth_diff)]
                       ELSE s0, LAMBDA s1 :
                    cont_jump(s1, cont))
    ELSE cont_jump(s0, cont)

\* VmState::jump_ext
jump_ext(s, cont, pass_args) ==
    IF HasControlData(cont)
    THEN LET control_data == cont.data
             current_depth == Depth(s.stack)
         IN  IF ~(OrZero(pass_args) <= current_depth /\ OrZero(control_data.nargs) <= current_depth)
             THEN Err(s, "StackUnderflow")
             ELSE IF pass_args # NoArgs /\ ~(OrZero(control_data.nargs) <= pass_args)
             THEN Err(s, "StackUnderflow")
             ELSE LET next_depth == IF control_data.nargs # NoArgs THEN control_data.nargs
                                    ELSE IF pass_args # NoArgs THEN pass_args
                                    ELSE current_depth
                      cont_stack == control_data.stack
                  IN  Then(preclear_cr(s, control_data.save), LAMBDA s1 :
                      Then(IF cont_stack.some /\ cont_stack.items # <<>>
                           THEN [s1 EXCEPT !.stack =
                                    move_from_stack(cont_stack.items, s1.stack, next_depth)]
                           ELSE IF next_depth < current_depth
                           THEN [s1 EXCEPT !.stack =
                                    drop_bottom(s1.stack, current_depth - next_depth)]
                           ELSE s1, LAMBDA s2 :
                        cont_jump(s2, cont)))
    ELSE IF pass_args # NoArgs
    THEN IF Depth(s.stack) < pass_args       \* checked_sub
         THEN Err(s, "StackUnderflow")
         ELSE LET depth_diff == Depth(s.stack) - pass_args
              IN  Then(IF depth_diff > 0
                       THEN [s EXCEPT !.stack = drop_bottom(s.stack, depth_diff)]
                       ELSE s, LAMBDA s1 :
                    cont_jump(s1, cont))
    ELSE cont_jump(s, cont)

\* VmState::jump
jump(s, cont) ==
    IF HasControlData(cont) /\ (cont.data.stack.some \/ cont.data.nargs # NoArgs)
    THEN jump_ext(s, cont, NoArgs)
    ELSE cont_jump(s, cont)

\* VmState::call_ext. The branch for a continuation with control data ends
\* after emptying the stack: no return continuation is built, c0 stays
\* taken and cont is not entered.
call_ext(s, cont, pass_args, ret_args) ==
    IF HasControlData(cont)
    THEN LET control_data == cont.data
             depth == Depth(s.stack)
         IN  IF control_data.save.c[1] # NoCont THEN jump(s, cont)
             ELSE IF ~(OrZero(pass_args) <= depth /\ OrZero(control_data.nargs) <= depth)
             THEN Err(s, "StackUnderflow")
             ELSE IF pass_args # NoArgs /\ ~(OrZero(control_data.nargs) <= pass_args)
             THEN Err(s, "StackUnderflow")
             ELSE LET s1 == [s EXCEPT !.cr.c[1] = NoCont]         \* old_c0 = c[0].take()
                      s2 == [s1 EXCEPT !.cr = preclear(s1.cr, control_data.save)]
                      copy == IF pass_args # NoArgs
                              THEN (IF control_data.nargs # NoArgs
                                    THEN control_data.nargs ELSE pass_args)
                              ELSE NoArgs
                      s3 == IF control_data.stack.some /\ control_data.stack.items # <<>>
                            THEN s2
                            ELSE IF copy # NoArgs THEN s2
                            ELSE [s2 EXCEPT !.stack = <<>>]
                  IN  Ok(s3, 0)
    ELSE IF pass_args # NoArgs /\ Depth(s.stack) < pass_args
    THEN Err(s, "StackUnderflow")
    ELSE LET new_stack == IF pass_args # NoArgs THEN TopItems(s.stack, pass_args) ELSE s.stack
             rest == IF pass_args # NoArgs
                     THEN SubSeq(s.stack, 1, Depth(s.stack) - pass_args) ELSE <<>>
             ret == OrdCont(s.code,
                            ControlData(ret_args, SomeStack(rest),
                                        [EmptyRegs EXCEPT !.c[1] = s.cr.c[1]], s.cp))
         IN  Then([s EXCEPT !.stack = new_stack, !.cr.c[1] = ret], LAMBDA s1 :
                cont_jump(s1, cont))

\* call whose return continuation does not save the caller's c0
call_forgetting_c0(s, cont) ==
    IF HasControlData(cont) /\ cont.data.save.c[1] # NoCont THEN jump(s, cont)
    ELSE IF HasControlData(cont) /\ (cont.data.stack.some \/ cont.data.nargs # NoArgs)
    THEN call_ext(s, cont, NoArgs, NoArgs)
    ELSE Then([s EXCEPT !.cr.c[1] = OrdContSimple(s.code, s.cp)], LAMBDA s1 :
            cont_jump(s1, cont))

\* VmState::call
call(s, cont) ==
    IF HasControlData(cont) /\ cont.data.save.c[1] # NoCont THEN jump(s, cont)
    ELSE IF HasControlData(cont) /\ (cont.data.stack.some \/ cont.data.nargs # NoArgs)
    THEN call_ext(s, cont, NoArgs, NoArgs)
    ELSE LET ret == OrdCont(s.code,
                            ControlData(NoArgs, NoStack,
                                        [EmptyRegs EXCEPT !.c[1] = s.cr.c[1]], s.cp))
         IN  Then([s EXCEPT !.cr.c[1] = ret], LAMBDA s1 : cont_jump(s1, cont))

\* VmState::take_c0 and VmState::take_c1: the register is refilled with the
\* stored quit continuation
take_c0(s) ==
    IF s.cr.c[1] = NoCont
    THEN [ok |-> FALSE, cont |-> NoCont, st |-> [s EXCEPT !.cr.c[1] = QUIT0]]
    ELSE [ok |-> TRUE, cont |-> s.cr.c[1], st |-> [s EXCEPT !.cr.c[1] = QUIT0]]

take_c1(s) ==
    IF s.cr.c[2] = NoCont
    THEN [ok |-> FALSE, cont |-> NoCont, st |-> [s EXCEPT !.cr.c[2] = QUIT1]]
    ELSE [ok |-> TRUE, cont |-> s.cr.c[2], st |-> [s EXCEPT !.cr.c[2] = QUIT1]]

\* ret that takes the continuation from c1
ret_taking_c1(s) ==
    Then(take_c1(s), LAMBDA t :
        IF t.ok THEN jump(t.st, t.cont) ELSE Err(t.st, "InvalidOpcode"))

\* VmState::ret, ret_ext, ret_alt, ret_alt_ext
ret(s) ==
    Then(take_c0(s), LAMBDA t :
        IF t.ok THEN jump(t.st, t.cont) ELSE Err(t.st, "InvalidOpcode"))

ret_ext(s, ret_args) ==
    Then(take_c0(s), LAMBDA t :
        IF t.ok THEN jump_ext(t.st, t.cont, ret_args) ELSE Err(t.st, "InvalidOpcode"))

ret_alt(s) ==
    Then(take_c1(s), LAMBDA t :
        IF t.ok THEN jump(t.st, t.cont) ELSE Err(t.st, "InvalidOpcode"))

ret_alt_ext(s, ret_args) ==
    Then(take_c1(s), LAMBDA t :
        IF t.ok THEN jump_ext(t.st, t.cont, ret_args) ELSE Err(t.st, "InvalidOpcode"))

\* VmState::throw_exception_with_arg
throw_exception_with_arg(s, n, arg) ==
    Then([s EXCEPT !.stack = <<arg, IntVal(n)>>, !.code = EmptySlice], LAMBDA s1 :
        IF s1.cr.c[3] = NoCont THEN Err(s1, "InvalidOpcode")
        ELSE jump(s1, s1.cr.c[3]))

\* throw_exception that pushes 0 and n on the stack it finds
throw_exception_keeping_stack(s, n) ==
    Then([s EXCEPT !.stack = s.stack \o <<IntVal(0), IntVal(n)>>, !.code = EmptySlice],
         LAMBDA s1 :
            IF s1.cr.c[3] = NoCont THEN Err(s1, "InvalidOpcode")
            ELSE jump(s1, s1.cr.c[3]))

\* VmState::throw_exception
throw_exception(s, n) ==
    Then([s EXCEPT !.stack = <<IntVal(0), IntVal(n)>>, !.code = EmptySlice], LAMBDA s1 :
        IF s1.cr.c[3] = NoCont THEN Err(s1, "InvalidOpcode")
        ELSE jump(s1, s1.cr.c[3]))

\* try_commit without the check of the depths
try_commit_any_depth(s) ==
    LET c4 == s.cr.d[1]
        c5 == s.cr.d[2]
    IN  IF /\ c4 # NoCell /\ c5 # NoCell
           /\ c4.level = 0 /\ c5.level = 0
        THEN [ok |-> TRUE, st |-> [s EXCEPT !.commited_state = CommitedState(c4, c5)]]
        ELSE [ok |-> FALSE, st |-> s]

\* try_commit without the check of the levels
try_commit_any_level(s) ==
    LET c4 == s.cr.d[1]
        c5 == s.cr.d[2]
    IN  IF /\ c4 # NoCell /\ c5 # NoCell
           /\ c4.depth <= MAX_DATA_DEPTH /\ c5.depth <= MAX_DATA_DEPTH
        THEN [ok |-> TRUE, st |-> [s EXCEPT !.commited_state = CommitedState(c4, c5)]]
        ELSE [ok |-> FALSE, st |-> s]

\* VmState::try_commit: whether it committed, and the state afterwards
try_commit(s) ==
    LET c4 == s.cr.d[1]
        c5 == s.cr.d[2]
    IN  IF /\ c4 # NoCell /\ c5 # NoCell
           /\ c4.level = 0 /\ c5.level = 0
           /\ c4.depth <= MAX_DATA_DEPTH /\ c5.depth <= MAX_DATA_DEPTH
        THEN [ok |-> TRUE, st |-> [s EXCEPT !.commited_state = CommitedState(c4, c5)]]
        ELSE [ok |-> FALSE, st |-> s]

\* VmState::extract_cc. mode is the set of SaveCr flags; the stack split off
\* for the caller (new_stack) is computed and dropped.
extract_cc(s, mode, stack_copy, nargs) ==
    IF stack_copy # NoArgs /\ stack_copy # 0 /\ stack_copy # Depth(s.stack)
       /\ stack_copy > Depth(s.stack)
    THEN [ok |-> FALSE, err |-> "StackUnderflow", cont |-> NoCont, st |-> s]
    ELSE LET s1 == IF stack_copy = 0 THEN s
                   ELSE IF stack_copy # NoArgs /\ stack_copy # Depth(s.stack)
                   THEN [s EXCEPT !.stack = split_top(s.stack, stack_copy).rest]
                   ELSE [s EXCEPT !.stack = <<>>]                \* take_stack
             save == [EmptyRegs EXCEPT
                        !.c[1] = IF 0 \in mode THEN s1.cr.c[1] ELSE NoCont,
                        !.c[2] = IF 1 \in mode THEN s1.cr.c[2] ELSE NoCont,
                        !.c[3] = IF 2 \in mode THEN s1.cr.c[3] ELSE NoCont]
             res == OrdCont(s1.code, ControlData(nargs, SomeStack(s1.stack), save, s1.cp))
             s2 == [s1 EXCEPT !.code = EmptySlice, !.stack = <<>>,
                              !.cr.c[1] = IF 0 \in mode THEN QUIT0 ELSE @,
                              !.cr.c[2] = IF 1 \in mode THEN QUIT1 ELSE @,
                              !.cr.c[3] = IF 2 \in mode THEN NoCont ELSE @]
         IN  [ok |-> TRUE, err |-> "none", cont |-> res, st |-> s2]

(***************************************************************************)
(* Code bits.                                                              *)
(***************************************************************************)
\* CellSlice::get_uint(0, n): the first n bits as a big-endian number
RECURSIVE BitsValue(_, _)
BitsValue(bits, n) ==
    IF n = 0 THEN 0 ELSE 2 * BitsValue(bits, n - 1) + bits[n]

\* the n-bit big-endian encoding of x
RECURSIVE ToBits(_, _)
ToBits(x, n) ==
    IF n = 0 THEN <<>> ELSE Append(ToBits(x \div 2, n - 1), x % 2)

\* the bits of a sequence of bytes
RECURSIVE Bytes(_)
Bytes(bs) ==
    IF bs = <<>> THEN <<>> ELSE ToBits(Head(bs), 8) \o Bytes(Tail(bs))

\* CellSliceRange::skip_first(n, 0)
skip_first(code, n) == [code EXCEPT !.bits = SubSeq(code.bits, n + 1, Len(code.bits))]

\* `x as i8 as i32` and `x as i16 as i32`
AsI8(x) == LET b == x % 256 IN IF b >= 128 THEN b - 256 ELSE b
AsI16(x) == LET b == x % 65536 IN IF b >= 32768 THEN b - 65536 ELSE b

(***************************************************************************)
(* Arithops: the registrations of codepage 0 and the instruction handlers. *)
(***************************************************************************)
\* the registrations of the #[instr] and #[init] attributes, in order:
\* <<operation, opcode or opcode_min, opcode_max, opcode bits, arg bits, exec>>
Registrations ==
    <<  <<"ext_range", 130 * 32, 130 * 32 + 31, 13, 0, "push_int">>,    \* 0x82 << 5
        <<"fixed", 7, 0, 4, 4, "push_tinyint4">>,                       \* 7x
        <<"fixed", 128, 0, 8, 8, "push_int8">>,                         \* 80xx
        <<"fixed", 129, 0, 8, 16, "push_int16">>,                       \* 81xxxx
        <<"fixed_range", 131 * 256, 131 * 256 + 255, 16, 8, "push_pow2">>,  \* 83xx..83ff
        <<"simple", 131 * 256 + 255, 0, 16, 0, "push_nan">>,            \* 83ff
        <<"fixed", 132, 0, 8, 8, "push_pow2dec">>,                      \* 84xx
        <<"fixed", 133, 0, 8, 8, "push_negpow2">>,                      \* 85xx
        <<"simple", 160, 0, 8, 0, "add">>,                              \* a0
        <<"simple", 183 * 256 + 160, 0, 16, 0, "qadd">>,                \* b7a0
        <<"simple", 161, 0, 8, 0, "sub">>,                              \* a1
        <<"simple", 183 * 256 + 161, 0, 16, 0, "qsub">>,                \* b7a1
        <<"simple", 162, 0, 8, 0, "subr">>,                             \* a2
        <<"simple", 183 * 256 + 162, 0, 16, 0, "qsubr">>,               \* b7a2
        <<"simple", 163, 0, 8, 0, "negate">>,                           \* a3
        <<"simple", 183 * 256 + 163, 0, 16, 0, "qnegate">>,             \* b7a3
        <<"simple", 164, 0, 8, 0, "inc">>,                              \* a4
        <<"simple", 183 * 256 + 164, 0, 16, 0, "qinc">>,                \* b7a4
        <<"simple", 165, 0, 8, 0, "dec">>,                              \* a5
        <<"simple", 183 * 256 + 165, 0, 16, 0, "qdec">>,                \* b7a5
        <<"fixed", 166, 0, 8, 8, "addint">>,                            \* a6yy
        <<"fixed", 183 * 256 + 166, 0, 16, 8, "qaddint">>,              \* b7a6yy
        <<"fixed", 167, 0, 8, 8, "mulint">>,                            \* a7yy
        <<"fixed", 183 * 256 + 167, 0, 16, 8, "qmulint">>,              \* b7a7yy
        <<"simple", 168, 0, 8, 0, "mul">>,                              \* a8
        <<"simple", 183 * 256 + 168, 0, 16, 0, "qmul">>  >>             \* b7a8

\* one registration applied to the builder map
Register(m, r) ==
    CASE r[1] = "simple" -> add_simple(m, r[2], r[4], r[6]).opcodes
      [] r[1] = "fixed" -> add_fixed(m, r[2], r[4], r[5], r[6]).opcodes
      [] r[1] = "fixed_range" -> add_fixed_range(m, r[2], r[3], r[4], r[5], r[6]).opcodes
      [] r[1] = "ext_range" -> add_ext_range(m, r[2], r[3], r[4], r[6]).opcodes

RECURSIVE RegisterAll(_, _)
RegisterAll(m, rs) ==
    IF rs = <<>> THEN m
    ELSE Then(Register(m, Head(rs)), LAMBDA added : RegisterAll(added, Tail(rs)))

\* instr::codepage0: the table built from the registrations, with its id
codepage0 == [id |-> CP0, opcodes |-> build(RegisterAll(<<>>, Registrations))]

\* instr::codepage: the table with the given id
Codepage(id) == codepage0

\* Stack::push_int of a value that needs no range check
push_int(s, x) == [s EXCEPT !.stack = Append(s.stack, IntVal(x))]

\* exec_push_tinyint4 with the argument conversions of its three #[instr] forms
exec_push_tinyint4(s, x) == Ok(push_int(s, x), 0)

\* the handler's `ok!(stack...)` and `Ok(0)`: r is the outcome of the last
\* stack operation, with the items it leaves
Finish(s, r) ==
    IF r.ok THEN Ok([s EXCEPT !.stack = r.items], 0)
    ELSE Err([s EXCEPT !.stack = r.items], r.err)

\* BigUint::from_bytes_be of the first n bits: the bits above the low 255
\* are the multiple of 2^255; the value of a wide field is summed by groups
\* of 30 bits
RECURSIVE WideBitsValue(_)
WideBitsValue(bits) ==
    IF Len(bits) <= 30 THEN BitsValue(bits, Len(bits))
    ELSE Then(WideBitsValue(SubSeq(bits, 1, Len(bits) - 30)), LAMBDA high :
            BitsValue(SubSeq(bits, Len(bits) - 29, Len(bits)), 30)
            + (IF high = 0 THEN 0 ELSE high * 2 ^ 30))

BigBitsValue(bits, n) ==
    IF n <= 255 THEN Raw(0, 0, WideBitsValue(SubSeq(bits, 1, n)))
    ELSE Raw(0, BitsValue(bits, n - 255),
             WideBitsValue(SubSeq(bits, n - 255 + 1, n)))

\* exec_push_int: the payload of 3 + 8 * l bits is read as an unsigned
\* big-endian number (BigUint::from_bytes_be, shifted right by 8 - rem)
exec_push_int(s, args, bits) ==
    LET l == (args % 32) + 2
        value_len == 3 + l * 8
    IN  IF ~(Len(s.code.bits) >= bits + value_len) THEN Err(s, "InvalidOpcode")
        ELSE Then(skip_first(s.code, bits), LAMBDA advanced :
             Then(BigBitsValue(advanced.bits, value_len), LAMBDA int :
                Finish([s EXCEPT !.code = skip_first(advanced, value_len)],
                       push_raw_int(s.stack, int, FALSE))))

\* BigInt::from(1) << x
Pow2(x) == IF x >= 255 THEN Raw(0, 2 ^ (x - 255), 0) ELSE Raw(0, 0, 2 ^ x)

\* exec_push_pow2, exec_push_nan, exec_push_pow2dec, exec_push_negpow2
exec_push_pow2(s, x) == Finish(s, push_raw_int(s.stack, Pow2(x), FALSE))

exec_push_nan(s) == Finish(s, push_nan(s.stack))

exec_push_pow2dec(s, x) ==
    Finish(s, push_raw_int(s.stack, BigSub(Pow2(x), Raw(0, 0, 1)), FALSE))

exec_push_negpow2(s, x) == Finish(s, push_raw_int(s.stack, BigNeg(Pow2(x)), FALSE))

\* the statement of a two-operand handler on x and y, and of a one-operand
\* handler on x and its immediate
BinaryResult(op, x, y) ==
    CASE op = "add" -> BigAdd(x, y)
      [] op = "sub" -> BigSub(x, y)
      [] op = "subr" -> BigSub(y, x)
      [] op = "mul" -> BigMul(x, y)

UnaryResult(op, x, imm) ==
    CASE op = "negate" -> BigNeg(x)
      [] op = "inc" -> BigAdd(x, Raw(0, 0, 1))
      [] op = "dec" -> BigSub(x, Raw(0, 0, 1))
      [] op = "addint" -> BigAdd(x, Raw(0, 0, imm))
      [] op = "mulint" -> BigMul(x, Raw(0, 0, imm))

\* the body shared by exec_add, exec_sub, exec_subr and exec_mul: y is
\* popped, then x; NaN operands give NaN when quiet
exec_binary(s, quiet, op) ==
    Then(pop_int_or_nan(s.stack), LAMBDA y :
        IF ~y.ok THEN Finish(s, y)
        ELSE Then(pop_int_or_nan(y.items), LAMBDA x :
            IF ~x.ok THEN Finish(s, x)
            ELSE IF x.some /\ y.some
            THEN Finish(s, push_raw_int(x.items,
                                        BinaryResult(op, RawOf(x.x), RawOf(y.x)), quiet))
            ELSE IF quiet THEN Finish(s, push_nan(x.items))
            ELSE Err([s EXCEPT !.stack = x.items], "IntegerOverflow")))

\* exec_unary whose quiet form answers an empty stack with NaN
exec_unary_quiet_underflow(s, quiet, op, imm) ==
    Then(pop_int_or_nan(s.stack), LAMBDA x :
        IF ~x.ok THEN (IF quiet THEN Finish(s, push_nan(x.items)) ELSE Finish(s, x))
        ELSE IF x.some
        THEN Finish(s, push_raw_int(x.items, UnaryResult(op, RawOf(x.x), imm), quiet))
        ELSE IF quiet THEN Finish(s, push_nan(x.items))
        ELSE Err([s EXCEPT !.stack = x.items], "IntegerOverflow"))

\* the body shared by exec_negate, exec_inc, exec_dec, exec_addint and
\* exec_mulint
exec_unary(s, quiet, op, imm) ==
    Then(pop_int_or_nan(s.stack), LAMBDA x :
        IF ~x.ok THEN Finish(s, x)
        ELSE IF x.some
        THEN Finish(s, push_raw_int(x.items, UnaryResult(op, RawOf(x.x), imm), quiet))
        ELSE IF quiet THEN Finish(s, push_nan(x.items))
        ELSE Err([s EXCEPT !.stack = x.items], "IntegerOverflow"))

\* exec_add that pushes as if quiet whatever its flag
exec_add_quiet_only(s, quiet) == exec_binary(s, TRUE, "add")

exec_add(s, quiet) == exec_binary(s, quiet, "add")

\* exec_sub that subtracts x from y
exec_sub_reversed(s, quiet) == exec_binary(s, quiet, "subr")

exec_sub(s, quiet) == exec_binary(s, quiet, "sub")
exec_subr(s, quiet) == exec_binary(s, quiet, "subr")
exec_negate(s, quiet) == exec_unary(s, quiet, "negate", 0)
exec_inc(s, quiet) == exec_unary(s, quiet, "inc", 0)
exec_dec(s, quiet) == exec_unary(s, quiet, "dec", 0)
exec_addint(s, y, quiet) == exec_unary(s, quiet, "addint", y)
exec_mulint(s, y, quiet) == exec_unary(s, quiet, "mulint", y)
exec_mul(s, quiet) == exec_binary(s, quiet, "mul")

\* the handler named exec, called with the argument the opcode entry passes
Exec(exec, s, args, bits) ==
    CASE exec = "push_tinyint4" -> exec_push_tinyint4(s, ((args + 5) % 16) - 5)
      [] exec = "push_int8" -> exec_push_tinyint4(s, AsI8(args))
      [] exec = "push_int16" -> exec_push_tinyint4(s, AsI16(args))
      [] exec = "push_int" -> exec_push_int(s, args, bits)
      [] exec = "push_pow2" -> exec_push_pow2(s, (args % 256) + 1)
      [] exec = "push_nan" -> exec_push_nan(s)
      [] exec = "push_pow2dec" -> exec_push_pow2dec(s, (args % 256) + 1)
      [] exec = "push_negpow2" -> exec_push_negpow2(s, (args % 256) + 1)
      [] exec = "add" -> exec_add(s, FALSE)
      [] exec = "qadd" -> exec_add(s, TRUE)
      [] exec = "sub" -> exec_sub(s, FALSE)
      [] exec = "qsub" -> exec_sub(s, TRUE)
      [] exec = "subr" -> exec_subr(s, FALSE)
      [] exec = "qsubr" -> exec_subr(s, TRUE)
      [] exec = "negate" -> exec_negate(s, FALSE)
      [] exec = "qnegate" -> exec_negate(s, TRUE)
      [] exec = "inc" -> exec_inc(s, FALSE)
      [] exec = "qinc" -> exec_inc(s, TRUE)
      [] exec = "dec" -> exec_dec(s, FALSE)
      [] exec = "qdec" -> exec_dec(s, TRUE)
      [] exec = "addint" -> exec_addint(s, AsI8(args), FALSE)
      [] exec = "qaddint" -> exec_addint(s, AsI8(args), TRUE)
      [] exec = "mulint" -> exec_mulint(s, AsI8(args), FALSE)
      [] exec = "qmulint" -> exec_mulint(s, AsI8(args), TRUE)
      [] exec = "mul" -> exec_mul(s, FALSE)
      [] exec = "qmul" -> exec_mul(s, TRUE)

(***************************************************************************)
(* Dispatch of one instruction.                                            *)
(***************************************************************************)
\* DispatchTable::get_opcode_from_slice
get_opcode_from_slice(code) ==
    LET bits == IF Len(code.bits) < MAX_OPCODE_BITS THEN Len(code.bits) ELSE MAX_OPCODE_BITS
    IN  [opcode |-> Shl(BitsValue(code.bits, bits), MAX_OPCODE_BITS - bits), bits |-> bits]

\* op_dispatch whose dummy entry charges as the other entries do, for its
\* opcode_bits of 0 and the bits of the opcode word
op_dispatch_dummy_bits(op, s, opcode, bits) ==
    LET amount == IF op.kind = "dummy" THEN GAS_PER_INSTRUCTION + bits * GAS_PER_BIT
                  ELSE GAS_PER_INSTRUCTION + op.bits * GAS_PER_BIT
    IN  Then(try_consume(s.gas, amount), LAMBDA g :
        Then([s EXCEPT !.gas = g.gas], LAMBDA s1 :
            IF ~g.ok THEN [r |-> Err(s1, "Cancelled"), handler |-> "none"]
            ELSE IF op.kind = "dummy"
            THEN [r |-> Err(s1, "InvalidOpcode"), handler |-> "none"]
            ELSE IF ~(bits >= op.bits)
            THEN [r |-> Err(s1, "InvalidOpcode"), handler |-> "none"]
            ELSE IF op.kind = "ext"
            THEN [r |-> Exec(op.exec, s1, Shr(opcode, MAX_OPCODE_BITS - op.bits), op.bits),
                  handler |-> op.exec]
            ELSE Then([s1 EXCEPT !.code = skip_first(s1.code, op.bits)], LAMBDA s2 :
                    [r |-> Exec(op.exec, s2, Shr(opcode, MAX_OPCODE_BITS - op.bits),
                                op.bits),
                     handler |-> op.exec])))

\* op_dispatch that checks the length of the opcode before it charges
op_dispatch_length_first(op, s, opcode, bits) ==
    LET amount == IF op.kind = "dummy" THEN GAS_PER_INSTRUCTION
                  ELSE GAS_PER_INSTRUCTION + op.bits * GAS_PER_BIT
    IN  IF op.kind # "dummy" /\ ~(bits >= op.bits)
        THEN [r |-> Err(s, "InvalidOpcode"), handler |-> "none"]
        ELSE
        Then(try_consume(s.gas, amount), LAMBDA g :
        Then([s EXCEPT !.gas = g.gas], LAMBDA s1 :
            IF ~g.ok THEN [r |-> Err(s1, "Cancelled"), handler |-> "none"]
            ELSE IF op.kind = "dummy"
            THEN [r |-> Err(s1, "InvalidOpcode"), handler |-> "none"]
            ELSE IF op.kind = "ext"
            THEN [r |-> Exec(op.exec, s1, Shr(opcode, MAX_OPCODE_BITS - op.bits), op.bits),
                  handler |-> op.exec]
            ELSE Then([s1 EXCEPT !.code = skip_first(s1.code, op.bits)], LAMBDA s2 :
                    [r |-> Exec(op.exec, s2, Shr(opcode, MAX_OPCODE_BITS - op.bits),
                                op.bits),
                     handler |-> op.exec])))

\* Opcode::dispatch of the four kinds of entry: the result, and the handler
\* that was invoked ("none" when none was)
op_dispatch(op, s, opcode, bits) ==
    LET amount == IF op.kind = "dummy" THEN GAS_PER_INSTRUCTION
                  ELSE GAS_PER_INSTRUCTION + op.bits * GAS_PER_BIT
    IN  Then(try_consume(s.gas, amount), LAMBDA g :
        Then([s EXCEPT !.gas = g.gas], LAMBDA s1 :
            IF ~g.ok THEN [r |-> Err(s1, "Cancelled"), handler |-> "none"]
            ELSE IF op.kind = "dummy"
            THEN [r |-> Err(s1, "InvalidOpcode"), handler |-> "none"]
            ELSE IF ~(bits >= op.bits)
            THEN [r |-> Err(s1, "InvalidOpcode"), handler |-> "none"]
            ELSE IF op.kind = "ext"
            THEN [r |-> Exec(op.exec, s1, Shr(opcode, MAX_OPCODE_BITS - op.bits), op.bits),
                  handler |-> op.exec]
            ELSE Then([s1 EXCEPT !.code = skip_first(s1.code, op.bits)], LAMBDA s2 :
                    [r |-> Exec(op.exec, s2, Shr(opcode, MAX_OPCODE_BITS - op.bits),
                                op.bits),
                     handler |-> op.exec])))

\* DispatchTable::dispatch
dispatch(t, s) ==
    Then(get_opcode_from_slice(s.code), LAMBDA o :
    Then(lookup(t, o.opcode), LAMBDA op :
        op_dispatch(op, s, o.opcode, o.bits)))

(***************************************************************************)
(* step, run and build.                                                    *)
(***************************************************************************)
\* self.steps += 1
Inc(n) == IF n < MaxSteps THEN n + 1 ELSE n

\* step that looks at the references before the data bits
step_refs_first(s) ==
    Then([s EXCEPT !.steps = Inc(s.steps)], LAMBDA s1 :
        IF s1.code.refs # <<>>
        THEN Then(load_cell(s1.gas, s1.code.refs[1], TRUE), LAMBDA g :
                [r |-> IF g.ok
                       THEN jump([s1 EXCEPT !.gas = g.gas],
                                 OrdContSimple(SliceOf(s1.code.refs[1]), s1.cp))
                       ELSE Err([s1 EXCEPT !.gas = g.gas], "Cancelled"),
                 branch |-> "jmpref", handler |-> "none"])
        ELSE IF s1.code.bits # <<>>
        THEN Then(dispatch(Codepage(s1.cp).opcodes, s1), LAMBDA d :
                [r |-> d.r, branch |-> "dispatch", handler |-> d.handler])
        ELSE [r |-> ret(s1), branch |-> "ret", handler |-> "none"])

\* VmState::step: the result, the branch taken and the handler invoked
step(s) ==
    Then([s EXCEPT !.steps = Inc(s.steps)], LAMBDA s1 :
        IF s1.code.bits # <<>>
        THEN Then(dispatch(Codepage(s1.cp).opcodes, s1), LAMBDA d :
                [r |-> d.r, branch |-> "dispatch", handler |-> d.handler])
        ELSE IF s1.code.refs # <<>>
        THEN Then(load_cell(s1.gas, s1.code.refs[1], TRUE), LAMBDA g :
                [r |-> IF g.ok
                       THEN jump([s1 EXCEPT !.gas = g.gas],
                                 OrdContSimple(SliceOf(s1.code.refs[1]), s1.cp))
                       ELSE Err([s1 EXCEPT !.gas = g.gas], "Cancelled"),
                 branch |-> "jmpref", handler |-> "none"])
        ELSE [r |-> ret(s1), branch |-> "ret", handler |-> "none"])

\* res | 1 on i32
BitOr1(res) == IF res % 2 = 0 THEN res + 1 ELSE res

\* VmStateBuilder::default
NoBuilder ==
    [code |-> EmptySlice, data |-> NoCell, stack |-> <<>>, c7 |-> <<>>,
     same_c3 |-> FALSE, without_push0 |-> FALSE]

\* run that commits after a double exception
run_iteration_commit_on_double(s) ==
    Then(step(s), LAMBDA t :
    Then(IF ~t.r.ok
         THEN throw_exception([t.r.st EXCEPT !.steps = Inc(t.r.st.steps)],
                              ExceptionCode(t.r.err))
         ELSE t.r, LAMBDA x :
    Then(try_commit(x.st), LAMBDA c :
    Then([op |-> "step", branch |-> t.branch, handler |-> t.handler,
          ok |-> t.r.ok, err |-> t.r.err, thrown |-> ~t.r.ok, double |-> "none",
          res |-> IF x.ok THEN x.val ELSE 0, commit |-> "none", seq |-> 0,
          cont |-> NoCont, args |-> NoArgs, ret_args |-> NoArgs,
          builder |-> NoBuilder], LAMBDA info :
        IF ~x.ok
        THEN [done |-> TRUE, result |-> as_exit_code(ExceptionCode(x.err)), st |-> c.st,
              info |-> [info EXCEPT !.double = x.err]]
        ELSE IF x.val = 0
        THEN [done |-> FALSE, result |-> 0, st |-> x.st, info |-> info]
        ELSE IF BitOr1(x.val) = -1 /\ ~c.ok
        THEN [done |-> TRUE, result |-> as_exit_code(ExceptionCode("CellOverflow")),
              st |-> [x.st EXCEPT !.stack = <<IntVal(0)>>],
              info |-> [info EXCEPT !.commit = "failed"]]
        ELSE IF BitOr1(x.val) = -1
        THEN [done |-> TRUE, result |-> x.val, st |-> c.st,
              info |-> [info EXCEPT !.commit = "ok"]]
        ELSE [done |-> TRUE, result |-> x.val, st |-> x.st, info |-> info]))))

\* One iteration of the loop of VmState::run: whether run returns, the value
\* it returns, the state, and what the iteration did.
run_iteration(s) ==
    Then(step(s), LAMBDA t :
    Then(IF ~t.r.ok
         THEN throw_exception([t.r.st EXCEPT !.steps = Inc(t.r.st.steps)],
                              ExceptionCode(t.r.err))
         ELSE t.r, LAMBDA x :
    Then(try_commit(x.st), LAMBDA c :
    Then([op |-> "step", branch |-> t.branch, handler |-> t.handler,
          ok |-> t.r.ok, err |-> t.r.err, thrown |-> ~t.r.ok, double |-> "none",
          res |-> IF x.ok THEN x.val ELSE 0, commit |-> "none", seq |-> 0,
          cont |-> NoCont, args |-> NoArgs, ret_args |-> NoArgs,
          builder |-> NoBuilder], LAMBDA info :
        IF ~x.ok
        THEN [done |-> TRUE, result |-> as_exit_code(ExceptionCode(x.err)), st |-> x.st,
              info |-> [info EXCEPT !.double = x.err]]
        ELSE IF x.val = 0
        THEN [done |-> FALSE, result |-> 0, st |-> x.st, info |-> info]
        ELSE IF BitOr1(x.val) = -1 /\ ~c.ok
        THEN [done |-> TRUE, result |-> as_exit_code(ExceptionCode("CellOverflow")),
              st |-> [x.st EXCEPT !.stack = <<IntVal(0)>>],
              info |-> [info EXCEPT !.commit = "failed"]]
        ELSE IF BitOr1(x.val) = -1
        THEN [done |-> TRUE, result |-> x.val, st |-> c.st,
              info |-> [info EXCEPT !.commit = "ok"]]
        ELSE [done |-> TRUE, result |-> x.val, st |-> x.st, info |-> info]))))

\* build that pushes the 0 whenever same_c3 is set
build_state_push0_on_same_c3(b) ==
    [code |-> b.code,
     stack |-> IF b.same_c3 THEN Append(b.stack, IntVal(0)) ELSE b.stack,
     cr |-> [c |-> <<QUIT0, QUIT1, EXC_QUIT,
                     IF b.same_c3 THEN OrdContSimple(b.code, CP0) ELSE QuitCont(11)>>,
             d |-> <<IF b.data = NoCell THEN EmptyCell ELSE b.data, EmptyCell>>,
             c7 |-> SomeStack(b.c7)],
     commited_state |-> NoCommit,
     steps |-> 0,
     gas |-> DefaultGas,
     cp |-> CP0]

\* VmStateBuilder::build
build_state(b) ==
    [code |-> b.code,
     stack |-> IF b.same_c3 /\ ~b.without_push0
               THEN Append(b.stack, IntVal(0)) ELSE b.stack,
     cr |-> [c |-> <<QUIT0, QUIT1, EXC_QUIT,
                     IF b.same_c3 THEN OrdContSimple(b.code, CP0) ELSE QuitCont(11)>>,
             d |-> <<IF b.data = NoCell THEN EmptyCell ELSE b.data, EmptyCell>>,
             c7 |-> SomeStack(b.c7)],
     commited_state |-> NoCommit,
     steps |-> 0,
     gas |-> DefaultGas,
     cp |-> CP0]

(***************************************************************************)
(* The state of the VM under test and the bookkeeping of the checks.       *)
(***************************************************************************)
VARIABLES
    code,       \* VmState.code: the code cursor
    stack,      \* VmState.stack: the items, the top last
    cr,         \* VmState.cr: c0..c3, c4/c5 (d), c7
    commited_state, \* VmState.commited_state
    steps,      \* VmState.steps
    gas,        \* VmState.gas: gas_remaining and loaded_cells
    cp,         \* VmState.cp: the id of the dispatch table the state refers to
    pc,         \* where the host is: "ready" (built), "running" (inside run), "done"
    result,     \* the value run returned
    ev,         \* what the last operation on the VmState did
    gas_failed, \* a gas charge has failed since the state was built
    loads       \* the cell hashes a gas-using load was asked for (asked) and
                \* those the new-cell rate was deducted for (paid)

dvars == <<opcodes, table, last, found>>
vmvars == <<code, stack, cr, commited_state, steps, gas, cp, pc, result, ev, gas_failed, loads>>
vars == <<opcodes, table, last, found,
          code, stack, cr, commited_state, steps, gas, cp, pc, result, ev, gas_failed, loads>>

\* no cell load has been asked for
NoLoads == [asked |-> {}, paid |-> {}]

\* loads after a load of the cell with hash h that took the meter from g0 to g1
LoadsAfter(h, use_gas, g0, g1) ==
    [asked |-> IF use_gas THEN loads.asked \cup {h} ELSE loads.asked,
     paid |-> IF use_gas /\ g0.gas_remaining - g1.gas_remaining = NEW_CELL_GAS
              THEN loads.paid \cup {h} ELSE loads.paid]

\* loads after a step: its implicit JMPREF loads reference 0 of the code
LoadsAfterStep(branch, g1) ==
    IF branch = "jmpref" THEN LoadsAfter(code.refs[1].hash, TRUE, gas, g1) ELSE loads

NoOp == [op |-> "none", min |-> 0, max |-> 0, ok |-> TRUE]
NoLookup == [opcode |-> -1, index |-> -1]
NoEvent == [op |-> "none", branch |-> "none", handler |-> "none", ok |-> TRUE,
            err |-> "none", thrown |-> FALSE, double |-> "none", res |-> 0,
            commit |-> "none", seq |-> 0, cont |-> NoCont, args |-> NoArgs,
            ret_args |-> NoArgs, builder |-> NoBuilder]

(***************************************************************************)
(* The builder under test: registrations, build, lookups.                  *)
(***************************************************************************)
\* the ranges registered in a builder map
Ranges(m) == {range(m[k]) : k \in DOMAIN m}

\* the half-open ranges a and b share an opcode
Intersects(a, b) == a[1] < b[2] /\ b[1] < a[2]

\* the opcodes looked up: every value next to a possible range boundary
Probes ==
    {x \in {Shl(b, MAX_OPCODE_BITS - Max(PrefixBits)) + d :
                b \in 0..(MaxPrefix + 2), d \in {-1, 0, 1}} \cup {MAX_OPCODE - 1} :
        0 <= x /\ x < MAX_OPCODE}

\* A registration on the builder: r is the outcome of the add_* call.
\* add_opcode's debug_assert!(min < max) and debug_assert!(max <= MAX_OPCODE)
\* are the call's preconditions.
Registered(name, r, min, max) ==
    /\ table = <<>>
    /\ min < max
    /\ max <= MAX_OPCODE
    /\ opcodes' = r.opcodes
    /\ last' = [op |-> name, min |-> min, max |-> max, ok |-> r.ok]
    /\ UNCHANGED <<table, found>>

AddSimple ==
    \E bits \in PrefixBits : \E opcode \in 0..Shr(MaxPrefix, Max(PrefixBits) - bits) :
        Registered("add_simple", add_simple(opcodes, opcode, bits, "nop"),
                   Shl(opcode, MAX_OPCODE_BITS - bits),
                   Shl(opcode + 1, MAX_OPCODE_BITS - bits))

AddFixed ==
    \E bits \in PrefixBits : \E opcode \in 0..Shr(MaxPrefix, Max(PrefixBits) - bits) :
    \E arg_bits \in ArgBits :
        Registered("add_fixed", add_fixed(opcodes, opcode, bits, arg_bits, "nop"),
                   Shl(opcode, MAX_OPCODE_BITS - bits),
                   Shl(opcode + 1, MAX_OPCODE_BITS - bits))

AddFixedRange ==
    \E total_bits \in PrefixBits :
    \E opcode_min \in 0..Shr(MaxPrefix, Max(PrefixBits) - total_bits) :
    \E opcode_max \in 0..(Shr(MaxPrefix, Max(PrefixBits) - total_bits) + 1) :
    \E arg_bits \in ArgBits :
        Registered("add_fixed_range",
                   add_fixed_range(opcodes, opcode_min, opcode_max, total_bits, arg_bits, "nop"),
                   Shl(opcode_min, MAX_OPCODE_BITS - total_bits),
                   Shl(opcode_max, MAX_OPCODE_BITS - total_bits))

AddExt ==
    \E bits \in PrefixBits : \E opcode \in 0..Shr(MaxPrefix, Max(PrefixBits) - bits) :
    \E arg_bits \in ArgBits :
        Registered("add_ext", add_ext(opcodes, opcode, bits, arg_bits, "nop"),
                   Shl(opcode, MAX_OPCODE_BITS - bits),
                   Shl(opcode + 1, MAX_OPCODE_BITS - bits))

AddExtRange ==
    \E total_bits \in PrefixBits :
    \E opcode_min \in 0..Shr(MaxPrefix, Max(PrefixBits) - total_bits) :
    \E opcode_max \in 0..(Shr(MaxPrefix, Max(PrefixBits) - total_bits) + 1) :
        Registered("add_ext_range",
                   add_ext_range(opcodes, opcode_min, opcode_max, total_bits, "nop"),
                   Shl(opcode_min, MAX_OPCODE_BITS - total_bits),
                   Shl(opcode_max, MAX_OPCODE_BITS - total_bits))

\* Opcodes::build consumes the builder.
Build ==
    /\ table = <<>>
    /\ table' = build(opcodes)
    /\ last' = [op |-> "build", min |-> 0, max |-> 0, ok |-> TRUE]
    /\ UNCHANGED <<opcodes, found>>

\* DispatchTable::lookup on the built table
Lookup ==
    /\ table # <<>>
    /\ \E opcode \in Probes :
        found' = [opcode |-> opcode, index |-> lookup_index(table, opcode)]
    /\ UNCHANGED <<opcodes, table, last>>

\* the VmState is left alone while the builder is under test
VmIdle ==
    /\ code = EmptySlice
    /\ stack = <<>>
    /\ cr = EmptyRegs
    /\ commited_state = NoCommit
    /\ steps = 0
    /\ gas = DefaultGas
    /\ cp = CP0
    /\ pc = "idle"
    /\ result = 0
    /\ ev = NoEvent
    /\ gas_failed = FALSE
    /\ loads = NoLoads

InitDispatch ==
    /\ opcodes = <<>>
    /\ table = <<>>
    /\ last = NoOp
    /\ found = NoLookup
    /\ VmIdle

NextDispatch ==
    \/ AddSimple /\ UNCHANGED vmvars
    \/ AddFixed /\ UNCHANGED vmvars
    \/ AddFixedRange /\ UNCHANGED vmvars
    \/ AddExt /\ UNCHANGED vmvars
    \/ AddExtRange /\ UNCHANGED vmvars
    \/ Build /\ UNCHANGED vmvars
    \/ Lookup /\ UNCHANGED vmvars

SpecDispatch == InitDispatch /\ [][NextDispatch]_vars

(***************************************************************************)
(* The VmState under test.                                                 *)
(***************************************************************************)
\* the VmState held in the variables
Vm == [code |-> code, stack |-> stack, cr |-> cr, commited_state |-> commited_state,
       steps |-> steps, gas |-> gas, cp |-> cp]

\* the variables hold the VmState s next
Becomes(s) ==
    /\ code' = s.code
    /\ stack' = s.stack
    /\ cr' = s.cr
    /\ commited_state' = s.commited_state
    /\ steps' = s.steps
    /\ gas' = s.gas
    /\ cp' = s.cp

\* code cells and data cells
CodeCell77 == Cell(1, 0, 0, Bytes(<<119>>), <<>>)               \* PUSHINT 7
GoodCell == Cell(2, 0, 3, <<>>, <<>>)
MaxDepthCell == Cell(3, 0, MAX_DATA_DEPTH, <<>>, <<>>)
DeepCell == Cell(4, 0, MAX_DATA_DEPTH + 1, <<>>, <<>>)
LevelCell == Cell(5, 1, 1, <<>>, <<>>)

\* the code the builder is given
Programs ==
    { EmptySlice,
      Slice(Bytes(<<128, 255>>), <<>>),                         \* 80FF: PUSHINT -1
      Slice(Bytes(<<119, 128, 255>>), <<>>),                    \* 77 80FF
      Slice(Bytes(<<255, 255, 255>>), <<>>),                    \* FFFFFF: unassigned
      Slice(Bytes(<<119>>), <<CodeCell77>>) }                   \* 77, then a reference

\* the builder's inputs
Builders ==
    [code : Programs,
     data : {NoCell, GoodCell},
     stack : {<<>>, <<IntVal(3), IntVal(4)>>},
     c7 : {<<>>},
     same_c3 : BOOLEAN,
     without_push0 : BOOLEAN]

\* what the host sets on a built state before it runs it
GasChoices == {20, 30, 1000}
HandlerChoices ==
    { NoCont,
      OrdContSimple(EmptySlice, CP0),
      OrdContSimple(Slice(Bytes(<<119>>), <<>>), CP0) }
DataChoices == {NoCell, MaxDepthCell, DeepCell, LevelCell}

InitVmFrom(builders) ==
    /\ \E b \in builders :
        LET s == build_state(b)
        IN  /\ code = s.code
            /\ stack = s.stack
            /\ cr = s.cr
            /\ commited_state = s.commited_state
            /\ steps = s.steps
            /\ gas = s.gas
            /\ cp = s.cp
    /\ pc = "ready"
    /\ result = 0
    /\ ev = NoEvent
    /\ gas_failed = FALSE
    /\ loads = NoLoads

InitVm == InitVmFrom(Builders)

\* the host sets the gas of the built state (gas is a pub field)
SetGas ==
    /\ pc = "ready"
    /\ \E g \in GasChoices : gas' = [gas EXCEPT !.gas_remaining = g]
    /\ ev' = [NoEvent EXCEPT !.op = "set_gas"]
    /\ UNCHANGED <<code, stack, cr, commited_state, steps, cp, pc, result, gas_failed, loads>>

\* an exception handler is installed in c2 (cr is a pub field)
SetC2 ==
    /\ pc = "ready"
    /\ \E h \in HandlerChoices : cr' = [cr EXCEPT !.c[3] = h]
    /\ ev' = [NoEvent EXCEPT !.op = "set_c2"]
    /\ UNCHANGED <<code, stack, commited_state, steps, gas, cp, pc, result, gas_failed, loads>>

\* the host makes quit1 the return continuation of a state built without
\* code (cr is a pub field)
SetC0 ==
    /\ pc = "ready"
    /\ code = EmptySlice
    /\ cr.c[1] = QUIT0
    /\ cr' = [cr EXCEPT !.c[1] = QUIT1]
    /\ ev' = [NoEvent EXCEPT !.op = "set_c0"]
    /\ UNCHANGED <<code, stack, commited_state, steps, gas, cp, pc, result, gas_failed, loads>>

\* c4 or c5 is replaced (cr is a pub field)
SetData ==
    /\ pc = "ready"
    /\ \E i \in 1..2, cell \in DataChoices : cr' = [cr EXCEPT !.d[i] = cell]
    /\ ev' = [NoEvent EXCEPT !.op = "set_data"]
    /\ UNCHANGED <<code, stack, commited_state, steps, gas, cp, pc, result, gas_failed, loads>>

\* one iteration of the loop of run; seq tells an iteration from the one before
RunIteration ==
    /\ pc \in {"ready", "running"}
    /\ \E it \in {run_iteration(Vm)} :
           /\ Becomes(it.st)
           /\ pc' = IF it.done THEN "done" ELSE "running"
           /\ result' = it.result
           /\ ev' = [it.info EXCEPT !.seq = 1 - ev.seq]
           /\ gas_failed' = (gas_failed \/ it.info.err = "Cancelled")
           /\ loads' = LoadsAfterStep(it.info.branch, it.st.gas)

DispatchIdle ==
    /\ opcodes = <<>>
    /\ table = <<>>
    /\ last = NoOp
    /\ found = NoLookup

Init == InitVm /\ DispatchIdle

Next ==
    \/ SetGas /\ UNCHANGED dvars
    \/ SetC2 /\ UNCHANGED dvars
    \/ SetC0 /\ UNCHANGED dvars
    \/ SetData /\ UNCHANGED dvars
    \/ RunIteration /\ UNCHANGED dvars

Spec == Init /\ [][Next]_vars

\* run is a loop without suspension: an iteration that can run, runs
FairSpec == Spec /\ WF_vars(RunIteration /\ UNCHANGED dvars)

(***************************************************************************)
(* build under test: a builder is filled in and built.                     *)
(***************************************************************************)
\* the builders built: those of run, with and without a c7 tuple
BuildInputs ==
    [code : Programs,
     data : {NoCell, GoodCell},
     stack : {<<>>, <<IntVal(3), IntVal(4)>>},
     c7 : {<<>>, <<IntVal(1)>>},
     same_c3 : BOOLEAN,
     without_push0 : BOOLEAN]

\* VmStateBuilder::build on the builder b
BuildState ==
    /\ pc = "idle"
    /\ \E b \in BuildInputs :
           /\ Becomes(build_state(b))
           /\ ev' = [NoEvent EXCEPT !.op = "build", !.builder = b]
    /\ pc' = "ready"
    /\ UNCHANGED <<result, gas_failed, loads>>

NextBuild == BuildState /\ UNCHANGED dvars

SpecBuild == InitDispatch /\ [][NextBuild]_vars

(***************************************************************************)
(* The gas meter under test: a GasConsumer with some gas is charged,       *)
(* and cells are loaded and finalized through its context.                 *)
(***************************************************************************)
\* the gas the meter starts with, the amounts charged and the cells loaded
MeterChoices == {0, 30, 130, 700}
AmountChoices == {10, 600}
CellChoices == {CodeCell77, GoodCell}

\* what a meter operation did: args is the amount charged or the hash of
\* the cell loaded, branch the load mode; seq tells a call from the one before
MeterEvent(name, ok, arg, mode) ==
    [NoEvent EXCEPT !.op = name, !.ok = ok, !.err = IF ok THEN "none" ELSE "Cancelled",
                    !.args = arg, !.branch = mode, !.seq = 1 - ev.seq]

\* GasConsumer::try_consume
TryConsume ==
    /\ \E amount \in AmountChoices : \E r \in {try_consume(gas, amount)} :
           /\ gas' = r.gas
           /\ ev' = MeterEvent("try_consume", r.ok, amount, "none")
    /\ UNCHANGED <<code, stack, cr, commited_state, steps, cp, pc, result, gas_failed, loads>>

\* GasConsumerContext::load_cell
LoadCell ==
    /\ \E cell \in CellChoices, use_gas \in BOOLEAN :
        \E r \in {load_cell(gas, cell, use_gas)} :
           /\ gas' = r.gas
           /\ ev' = MeterEvent("load_cell", r.ok, cell.hash,
                               IF use_gas THEN "use_gas" ELSE "no_gas")
           /\ loads' = LoadsAfter(cell.hash, use_gas, gas, r.gas)
    /\ UNCHANGED <<code, stack, cr, commited_state, steps, cp, pc, result, gas_failed>>

\* GasConsumerContext::finalize_cell
FinalizeCell ==
    /\ \E r \in {finalize_cell(gas)} :
           /\ gas' = r.gas
           /\ ev' = MeterEvent("finalize_cell", r.ok, BUILD_CELL_GAS, "none")
    /\ UNCHANGED <<code, stack, cr, commited_state, steps, cp, pc, result, gas_failed, loads>>

\* a GasConsumer with gas_remaining set and no cell loaded; no VmState
InitGas ==
    /\ DispatchIdle
    /\ code = EmptySlice
    /\ stack = <<>>
    /\ cr = EmptyRegs
    /\ commited_state = NoCommit
    /\ steps = 0
    /\ \E g \in MeterChoices : gas = [DefaultGas EXCEPT !.gas_remaining = g]
    /\ cp = CP0
    /\ pc = "idle"
    /\ result = 0
    /\ ev = NoEvent
    /\ gas_failed = FALSE
    /\ loads = NoLoads

NextGas ==
    \/ TryConsume /\ UNCHANGED dvars
    \/ LoadCell /\ UNCHANGED dvars
    \/ FinalizeCell /\ UNCHANGED dvars

SpecGas == InitGas /\ [][NextGas]_vars

(***************************************************************************)
(* try_commit under test: the host replaces c4 and c5 and calls the public *)
(* try_commit on a built state.                                            *)
(***************************************************************************)
\* VmState::try_commit called by the host; seq tells a call from the one before
TryCommit ==
    /\ pc = "ready"
    /\ \E c \in {try_commit(Vm)} :
           /\ Becomes(c.st)
           /\ ev' = [NoEvent EXCEPT !.op = "try_commit", !.ok = c.ok, !.seq = 1 - ev.seq]
    /\ UNCHANGED <<pc, result, gas_failed, loads>>

NextCommit ==
    \/ SetData /\ UNCHANGED dvars
    \/ TryCommit /\ UNCHANGED dvars

SpecCommit == Init /\ [][NextCommit]_vars

(***************************************************************************)
(* The operations of VmState under test: a host calls step and the         *)
(* control-flow operations in any order on a built state.                  *)
(***************************************************************************)
\* the states the host starts from, and the continuations, argument counts
\* and SaveCr modes it passes
OpsBuilders ==
    [code : {Slice(Bytes(<<128, 255>>), <<>>), Slice(Bytes(<<119, 128, 255>>), <<>>),
             Slice(Bytes(<<255, 255, 255>>), <<>>)},
     data : {NoCell},
     stack : {<<>>, <<IntVal(3), IntVal(4)>>},
     c7 : {<<>>},
     same_c3 : {FALSE},
     without_push0 : {TRUE}]
OpsConts ==
    { QuitCont(0),
      OrdContSimple(Slice(Bytes(<<119>>), <<>>), CP0),
      OrdCont(Slice(Bytes(<<119>>), <<>>), ControlData(0, NoStack, EmptyRegs, CP0)),
      OrdCont(Slice(Bytes(<<119>>), <<>>), ControlData(1, NoStack, EmptyRegs, CP0)),
      OrdCont(EmptySlice, ControlData(NoArgs, SomeStack(<<IntVal(1)>>), EmptyRegs, CP0)),
      OrdCont(EmptySlice,
              ControlData(NoArgs, NoStack, [EmptyRegs EXCEPT !.c[1] = QUIT1], CP0)) }
OpsArgs == {NoArgs, 1}
OpsModes == {{0, 1}, {0, 1, 2}}
OpsGas == {60}

\* what an operation that returned r did; seq counts the operations
OpsEvent(name, r) ==
    [NoEvent EXCEPT !.op = name, !.ok = r.ok, !.err = r.err, !.seq = ev.seq + 1]

\* the operation returned r: its state is installed
Returned(name, r) ==
    /\ ev.seq < MaxOps
    /\ Becomes(r.st)
    /\ ev' = OpsEvent(name, r)
    /\ UNCHANGED <<pc, result, gas_failed, loads>>

\* the operation called with cont and pass_args returned r
Called(name, r, cont, pass_args) ==
    /\ ev.seq < MaxOps
    /\ Becomes(r.st)
    /\ ev' = [OpsEvent(name, r) EXCEPT !.cont = cont, !.args = pass_args]
    /\ UNCHANGED <<pc, result, gas_failed, loads>>

\* the host sets the gas before the first step
OpsSetGas ==
    /\ ev.seq = 0
    /\ \E g \in OpsGas : gas' = [gas EXCEPT !.gas_remaining = g]
    /\ ev' = [NoEvent EXCEPT !.op = "set_gas", !.seq = ev.seq + 1]
    /\ UNCHANGED <<code, stack, cr, commited_state, steps, cp, pc, result, gas_failed, loads>>

OpStep ==
    /\ ev.seq < MaxOps
    /\ \E t \in {step(Vm)} :
           /\ Becomes(t.r.st)
           /\ ev' = [OpsEvent("step", t.r) EXCEPT !.branch = t.branch,
                                                  !.handler = t.handler]
           /\ loads' = LoadsAfterStep(t.branch, t.r.st.gas)
    /\ UNCHANGED <<pc, result, gas_failed>>

OpCall ==
    \E cont \in OpsConts : \E r \in {call(Vm, cont)} : Called("call", r, cont, NoArgs)

OpCallExt ==
    \E cont \in OpsConts, pass_args \in OpsArgs, ret_args \in OpsArgs :
        \E r \in {call_ext(Vm, cont, pass_args, ret_args)} :
            /\ ev.seq < MaxOps
            /\ Becomes(r.st)
            /\ ev' = [OpsEvent("call_ext", r) EXCEPT !.cont = cont, !.args = pass_args,
                                                     !.ret_args = ret_args]
            /\ UNCHANGED <<pc, result, gas_failed, loads>>

OpJump ==
    \E cont \in OpsConts : \E r \in {jump(Vm, cont)} : Returned("jump", r)

OpJumpExt ==
    \E cont \in OpsConts, pass_args \in OpsArgs :
        \E r \in {jump_ext(Vm, cont, pass_args)} : Called("jump_ext", r, cont, pass_args)

OpRet == \E r \in {ret(Vm)} : Returned("ret", r)

OpRetAlt == \E r \in {ret_alt(Vm)} : Returned("ret_alt", r)

OpExtractCC ==
    \E mode \in OpsModes, stack_copy \in OpsArgs :
        \E r \in {extract_cc(Vm, mode, stack_copy, NoArgs)} : Returned("extract_cc", r)

OpThrowException ==
    \E r \in {throw_exception(Vm, ExceptionCode("StackUnderflow"))} :
        Returned("throw_exception", r)

NextOps ==
    \/ OpsSetGas /\ UNCHANGED dvars
    \/ OpStep /\ UNCHANGED dvars
    \/ OpCall /\ UNCHANGED dvars
    \/ OpCallExt /\ UNCHANGED dvars
    \/ OpJump /\ UNCHANGED dvars
    \/ OpJumpExt /\ UNCHANGED dvars
    \/ OpRet /\ UNCHANGED dvars
    \/ OpRetAlt /\ UNCHANGED dvars
    \/ OpExtractCC /\ UNCHANGED dvars
    \/ OpThrowException /\ UNCHANGED dvars

InitOps == InitVmFrom(OpsBuilders) /\ DispatchIdle

SpecOps == InitOps /\ [][NextOps]_vars

(***************************************************************************)
(* The stack-shaping operations under test: jump_ext or extract_cc is      *)
(* called once on a built state, over more stacks, continuations and       *)
(* argument counts than the sequences above can afford.                    *)
(***************************************************************************)
ShapeBuilders ==
    [code : {Slice(Bytes(<<128, 255>>), <<>>)},
     data : {NoCell},
     stack : {<<>>, <<IntVal(3)>>, <<IntVal(3), IntVal(4)>>,
              <<IntVal(3), IntVal(4), IntVal(5)>>},
     c7 : {<<>>},
     same_c3 : {FALSE},
     without_push0 : {TRUE}]
ShapeCode == Slice(Bytes(<<119>>), <<>>)
ShapeSaved == {NoStack, SomeStack(<<>>), SomeStack(<<IntVal(1)>>),
               SomeStack(<<IntVal(1), IntVal(2)>>)}
ShapeConts ==
    {QuitCont(0)}
    \cup {OrdCont(ShapeCode, ControlData(nargs, saved, save, CP0)) :
             nargs \in {NoArgs, 0, 1, 2}, saved \in ShapeSaved,
             save \in {EmptyRegs, [EmptyRegs EXCEPT !.c[2] = QUIT0]}}
ShapeArgs == {NoArgs, 0, 1, 2, 3}

\* VmState::jump_ext on the built state
ShapeJumpExt ==
    /\ ev.seq = 0
    /\ \E cont \in ShapeConts, pass_args \in ShapeArgs :
        \E r \in {jump_ext(Vm, cont, pass_args)} :
           /\ Becomes(r.st)
           /\ ev' = [OpsEvent("jump_ext", r) EXCEPT !.cont = cont, !.args = pass_args]
    /\ UNCHANGED <<pc, result, gas_failed, loads>>

\* VmState::extract_cc on the built state; the event holds the
\* continuation returned
ShapeExtractCC ==
    /\ ev.seq = 0
    /\ \E mode \in OpsModes, stack_copy \in ShapeArgs, nargs \in OpsArgs :
        \E r \in {extract_cc(Vm, mode, stack_copy, nargs)} :
           /\ Becomes(r.st)
           /\ ev' = [OpsEvent("extract_cc", r) EXCEPT !.cont = r.cont, !.args = stack_copy,
                                                      !.ret_args = nargs]
    /\ UNCHANGED <<pc, result, gas_failed, loads>>

InitShape == InitVmFrom(ShapeBuilders) /\ DispatchIdle

NextShape ==
    \/ ShapeJumpExt /\ UNCHANGED dvars
    \/ ShapeExtractCC /\ UNCHANGED dvars

SpecShape == InitShape /\ [][NextShape]_vars

(***************************************************************************)
(* The arithmetic family under test: a state is built over the code of one *)
(* instruction and a stack of operands, given gas and run.                 *)
(***************************************************************************)
\* the instructions a0..a8, their opcode byte and the immediates of ADDINT
\* and MULINT (2 and -1)
ArithOps == {"add", "sub", "subr", "negate", "inc", "dec", "addint", "mulint", "mul"}
BinaryOps == {"add", "sub", "subr", "mul"}
ImmOps == {"addint", "mulint"}
ArithImms == {2, -1}

OpByte(op) ==
    CASE op = "add" -> 160 [] op = "sub" -> 161 [] op = "subr" -> 162
      [] op = "negate" -> 163 [] op = "inc" -> 164 [] op = "dec" -> 165
      [] op = "addint" -> 166 [] op = "mulint" -> 167 [] op = "mul" -> 168

\* the code of OP or, prefixed by b7, of QOP
ArithCode(op, quiet, imm) ==
    Slice(Bytes((IF quiet THEN <<183>> ELSE <<>>) \o <<OpByte(op)>>
                \o (IF op \in ImmOps THEN <<imm % 256>> ELSE <<>>)), <<>>)

ArithPrograms ==
    {ArithCode(op, quiet, 0) : op \in ArithOps \ ImmOps, quiet \in BOOLEAN}
    \cup {ArithCode(op, quiet, imm) : op \in ImmOps, quiet \in BOOLEAN, imm \in ArithImms}

\* operands: 3, -4, 2^255, -2^256 and 2^256 - 1
ArithValues == {IntVal(3), IntVal(-4), BigVal(1, 0), BigVal(-2, 0), BigVal(2, -1)}
ArithStacks == {<<>>} \cup {<<x>> : x \in ArithValues}
               \cup {<<x, y>> : x \in ArithValues, y \in ArithValues}
               \cup {<<IntVal(3), IntVal(4)>>}
               \cup {<<z, IntVal(3), IntVal(4)>> : z \in ArithValues}

\* the shortest PUSHINT form of x: 7x, 80xx, 81xxxx, or the prefix 0x82 with
\* the length field 0 and x in 19 bits of two's complement
PushIntCode(x) ==
    Slice(IF x \in -5..10 THEN Bytes(<<7 * 16 + (x % 16)>>)
          ELSE IF x \in -128..127 THEN Bytes(<<128, x % 256>>)
          ELSE IF x \in -32768..32767
          THEN Bytes(<<129, (x % 65536) \div 256, x % 256>>)
          ELSE ToBits(130 * 32, 13) \o ToBits(x % (2 ^ 19), 19), <<>>)

\* the integers pushed: the ends of the range of each form
PushValues ==
    {-5, 0, 10, -6, 11, -128, 127, -129, 128, -32768, 32767, -32769, 32768,
     -262144, 262143}

\* PUSHINT with the length field 30: 259 bits, h * 2^255 + v
LongPushInt(h, v) ==
    ToBits(130 * 32 + 30, 13) \o ToBits(h, 4) \o [i \in 1..225 |-> 0] \o ToBits(v, 30)

\* sequences of instructions that reach the ends of the range: PUSHPOW2 255,
\* PUSHPOW2DEC 256 and PUSHNEGPOW2 256 followed by ADD, INC, DEC, NEGATE,
\* MULINT 2, MUL or their quiet forms, and the long PUSHINT of 2^255,
\* 2^255 + 5, 2^256, 15 * 2^255 + 7 and the like followed by INC
RangePrograms ==
    {Slice(Bytes(b), <<>>) : b \in
        {<<131, 254, 131, 254, 160>>, <<131, 254, 131, 254, 183, 160, 183, 164>>,
         <<132, 255, 164>>, <<132, 255, 183, 164, 164>>,
         <<133, 255, 165>>, <<133, 255, 163>>, <<133, 255, 183, 163>>,
         <<133, 255, 183, 167, 2, 131, 0>>, <<131, 254, 167, 2>>,
         <<132, 255, 133, 255, 168>>, <<132, 255, 133, 255, 183, 168>>,
         <<132, 255, 133, 255, 160, 165>>}}
    \cup {Slice(LongPushInt(h, v) \o Bytes(<<164>>), <<>>) :
               h \in {1, 2, 15}, v \in {0, 5, 7}}

ArithBuilders ==
    [code : ArithPrograms, data : {NoCell}, stack : ArithStacks, c7 : {<<>>},
     same_c3 : {FALSE}, without_push0 : {TRUE}]
    \cup [code : RangePrograms, data : {NoCell},
          stack : {<<>>, <<BigVal(2, -1)>>}, c7 : {<<>>},
          same_c3 : {FALSE}, without_push0 : {TRUE}]
    \cup [code : {PushIntCode(x) : x \in PushValues}, data : {NoCell},
          stack : {<<>>, <<IntVal(3)>>}, c7 : {<<>>},
          same_c3 : {FALSE}, without_push0 : {TRUE}]

InitArith == InitVmFrom(ArithBuilders) /\ DispatchIdle

NextArith ==
    \/ SetGas /\ UNCHANGED dvars
    \/ RunIteration /\ UNCHANGED dvars

SpecArith == InitArith /\ [][NextArith]_vars

(***************************************************************************)
(* step under test on whole and on cut-off opcodes: the host calls step    *)
(* on a built state, with the gas it is built with or after setting it.    *)
(***************************************************************************)
\* ADD, PUSHINT -1, PUSHINT 7 then PUSHINT -1, the long PUSHINT of 32768;
\* then cut off: 7 bits of ADD, 80 without its argument, 12 bits of QADD, 82
\* without the rest of its prefix, and the long prefix with 3 bits of payload
StepPrograms ==
    { Slice(Bytes(<<160>>), <<>>),
      Slice(Bytes(<<128, 255>>), <<>>),
      Slice(Bytes(<<119, 128, 255>>), <<>>),
      PushIntCode(32768),
      Slice(<<1, 0, 1, 0, 0, 0, 0>>, <<>>),
      Slice(Bytes(<<128>>), <<>>),
      Slice(Bytes(<<183>>) \o <<1, 0, 1, 0>>, <<>>),
      Slice(Bytes(<<130>>), <<>>),
      Slice(ToBits(130 * 32, 13) \o <<1, 0, 1>>, <<>>) }
StepBuilders ==
    [code : StepPrograms, data : {NoCell},
     stack : {<<>>, <<IntVal(3), IntVal(4)>>}, c7 : {<<>>},
     same_c3 : {FALSE}, without_push0 : {TRUE}]

InitStep == InitVmFrom(StepBuilders) /\ DispatchIdle

NextStep ==
    \/ OpsSetGas /\ UNCHANGED dvars
    \/ OpStep /\ UNCHANGED dvars

SpecStep == InitStep /\ [][NextStep]_vars

(***************************************************************************)
(* Claims about the dispatch table.                                        *)
(***************************************************************************)
\* the entries of table t whose range [min, max) contains the opcode
Containing(t, opcode) ==
    {i \in 1..Len(t) : range(t[i][2])[1] <= opcode /\ opcode < range(t[i][2])[2]}

\* C1: a built table is sorted by strictly increasing range_start, starts at
\* 0 and covers [0, 2^24) without a gap, and lookup(opcode) returns the entry
\* with the largest range_start <= opcode, the one entry whose range holds it.
C1_DispatchCoverage ==
    table # <<>> =>
        /\ table[1][1] = 0
        /\ range(table[Len(table)][2])[2] = MAX_OPCODE
        /\ \A i \in 1..Len(table) : table[i][1] = range(table[i][2])[1]
        /\ \A i \in 1..(Len(table) - 1) :
              /\ table[i][1] < table[i + 1][1]
              /\ range(table[i][2])[2] = table[i + 1][1]
        /\ \A opcode \in Probes :
              LET i == lookup_index(table, opcode) + 1
              IN  /\ table[i][1] <= opcode
                  /\ \A j \in 1..Len(table) :
                        table[j][1] <= opcode => table[j][1] <= table[i][1]
                  /\ Containing(table, opcode) = {i}
        /\ found.opcode # -1 =>
              Containing(table, found.opcode) = {found.index + 1}

\* C1 witness: a lookup in a table of registered ranges and dummy fillers
\* that lands on a registered range in the upper half of the array
C1_Witness ==
    /\ table # <<>>
    /\ Len(table) >= 4
    /\ \E i \in 1..Len(table) : table[i][2].kind = "dummy"
    /\ found.index >= 2
    /\ table[found.index + 1][2].kind # "dummy"

\* C2: a registration fails exactly when its range [min, max) intersects a
\* range registered earlier; a failed one leaves the builder as it was and
\* a successful one adds its range.
C2_OverlapRejection ==
    [][table' = <<>> =>
        LET new == <<last'.min, last'.max>>
            hit == \E r \in Ranges(opcodes) : Intersects(r, new)
        IN  /\ last'.ok = ~hit
            /\ hit => opcodes' = opcodes
            /\ ~hit => /\ Ranges(opcodes') = Ranges(opcodes) \cup {new}
                       /\ DOMAIN opcodes' = (DOMAIN opcodes) \cup {new[1]}]_vars

\* C2 witness: a registration refused because its range lies inside an
\* earlier range that starts lower, with a further range registered
C2_Witness ==
    /\ last.op \in {"add_simple", "add_fixed", "add_ext"}
    /\ ~last.ok
    /\ Cardinality(DOMAIN opcodes) >= 2
    /\ \E r \in Ranges(opcodes) : r[1] < last.min /\ last.max <= r[2]

\* C28: a registration whose range only meets a range registered earlier
\* (its max is the other's min, or its min the other's max) fails as an
\* overlapping one does, and leaves the builder as it was.
C28_AdjacentRejected ==
    [][(/\ table' = <<>>
        /\ \E r \in Ranges(opcodes) : r[1] = last'.max \/ r[2] = last'.min) =>
          /\ ~last'.ok
          /\ opcodes' = opcodes]_vars

(***************************************************************************)
(* Claims about step and run.                                              *)
(***************************************************************************)
\* the step from one state to the next is an iteration of run
Iterates == pc # "done" /\ pc' # "ready"

\* the data registers fit a commit: both set, level 0, depth within the limit
Commitable(d) ==
    /\ d[1] # NoCell /\ d[2] # NoCell
    /\ d[1].level = 0 /\ d[2].level = 0
    /\ d[1].depth <= 512 /\ d[2].depth <= 512

\* C3: a step in which no gas charge fails lowers gas_remaining by at least
\* base_instruction_gas = 10, whichever of its three branches it takes.
C3_GasMonotone ==
    [][(Iterates /\ ev'.err # "Cancelled") =>
          gas'.gas_remaining + GAS_PER_INSTRUCTION <= gas.gas_remaining]_vars

\* C4: the iteration of run in which a gas charge fails ends run with the
\* OutOfGas exit code (13), and no handler is entered after a failed charge.
C4_GasExhaustionTerminal ==
    [][Iterates =>
          /\ ev'.err = "Cancelled" => (pc' = "done" /\ result' = as_exit_code(13))
          /\ gas_failed => ev'.handler = "none"]_vars

\* C5: run eventually returns.
C5_Termination == <>(pc = "done")

\* C6: run on a state built with empty code, empty stack, same_c3 = false
\* and without_push0 = true takes the implicit RET on its first step, jumps
\* to quit0 and returns exit code 0 (the value !0).
C6_Scenario1 ==
    [][(/\ Iterates
        /\ pc = "ready" /\ ev = NoEvent
        /\ code = EmptySlice /\ stack = <<>> /\ cr.c[4] = QuitCont(11)) =>
          /\ cr.c[1] = QUIT0
          /\ ev'.branch = "ret" /\ ev'.ok
          /\ pc' = "done"
          /\ result' = Not(0)]_vars

\* C6 witness: run has returned !0 after one step that took the implicit
\* RET, on a state left as it was built, same_c3 = false
C6_Witness ==
    /\ pc = "done" /\ result = Not(0)
    /\ steps = 1 /\ ev.branch = "ret"
    /\ stack = <<>> /\ cr.c[4] = QuitCont(11) /\ cr.c[3] = EXC_QUIT
    /\ gas.gas_remaining = 0
    /\ commited_state = CommitedState(EmptyCell, EmptyCell)

\* C7: the first step of a state as build() returns it, on code 80FF,
\* completes the instruction without an exception: -1 on top, steps = 1.
C7_BuiltStateReady ==
    [][(/\ Iterates
        /\ pc = "ready" /\ ev = NoEvent
        /\ code = Slice(Bytes(<<128, 255>>), <<>>)) =>
          /\ ev'.ok /\ ev'.handler = "push_int8"
          /\ steps' = 1
          /\ stack' # <<>> /\ stack'[Len(stack')] = IntVal(-1)]_vars

\* C8: try_commit returns true exactly when c4 and c5 are set with level 0
\* and depth <= 512; true stores (c4, c5) in commited_state, false leaves
\* commited_state as it was, and a further call with c4 and c5 unchanged
\* after a successful one succeeds with the same cells.
C8_TryCommit ==
    [][(ev'.op = "try_commit" /\ ev'.seq # ev.seq) =>
          /\ ev'.ok = Commitable(cr.d)
          /\ ev'.ok => commited_state' = CommitedState(cr.d[1], cr.d[2])
          /\ ~ev'.ok => commited_state' = commited_state
          /\ (ev.op = "try_commit" /\ ev.ok) =>
                (ev'.ok /\ commited_state' = commited_state)]_vars

\* C8 witness: a refused try_commit that has left the cells of an earlier
\* commit at the depth limit in place
C8_Witness ==
    /\ ev.op = "try_commit" /\ ~ev.ok
    /\ commited_state.some
    /\ commited_state.c4 = MaxDepthCell
    /\ cr.d[1] # commited_state.c4

\* C9: when run returns r with r | 1 = -1, commited_state holds the c4 and
\* c5 of the final state, both of level 0 and depth <= 512; when that commit
\* fails, run leaves the stack [0], returns the CellOverflow exit code and
\* leaves commited_state as it was.
C9_CommitOnReturn ==
    [][(Iterates /\ pc' = "done") =>
          /\ BitOr1(result') = -1 =>
                /\ ev'.commit = "ok"
                /\ commited_state' = CommitedState(cr'.d[1], cr'.d[2])
                /\ Commitable(cr'.d)
          /\ (ev'.commit = "failed") = (BitOr1(ev'.res) = -1 /\ ~Commitable(cr'.d))
          /\ ev'.commit = "failed" =>
                /\ stack' = <<IntVal(0)>>
                /\ result' = as_exit_code(8)
                /\ commited_state' = commited_state]_vars

\* C9 witness: run has returned after a normal termination whose commit
\* was refused for the depth of c4
C9_Witness ==
    /\ pc = "done" /\ ev.commit = "failed"
    /\ BitOr1(ev.res) = -1
    /\ cr.d[1] = DeepCell
    /\ stack = <<IntVal(0)>>
    /\ result = as_exit_code(8)
    /\ ~commited_state.some

\* what a continuation c2 without saved stack and nargs makes of the stack
\* <<first, n>> it receives with a cleared code cursor: an ordinary one
\* installs its code, ExcQuit pops n and ends run with !n
Handled(c2, first, n, st, done, res) ==
    CASE c2.type = "ord" ->
            /\ st.stack = <<first, IntVal(n)>>
            /\ st.code = c2.code
            /\ ~done
      [] c2.type = "excquit" ->
            /\ st.stack = <<first>>
            /\ st.code = EmptySlice
            /\ done /\ res = Not(n)

\* C15: when step fails with an error e inside run and c2 is set, the stack
\* becomes [0, code(e)], the code cursor is cleared and control passes to
\* the continuation in c2, which stays in c2; the former stack is gone.
\* throw_exception_with_arg(n, arg) does the same with [arg, n].
C15_ThrowException ==
    [][(Iterates /\ ev'.thrown /\ cr.c[3] # NoCont) =>
          /\ ev'.double = "none"
          /\ cr'.c[3] = cr.c[3]
          /\ Handled(cr.c[3], IntVal(0), ExceptionCode(ev'.err),
                     [stack |-> stack', code |-> code'], pc' = "done", result')
          /\ LET w == throw_exception_with_arg(Vm, 5, IntVal(7))
             IN  /\ w.ok
                 /\ w.st.cr.c[3] = cr.c[3]
                 /\ Handled(cr.c[3], IntVal(7), 5, w.st, w.val # 0, w.val)]_vars

\* C15 witness: the step on FFFFFF has failed on a stack of two items and
\* the ordinary continuation in c2 has received [0, 6]
C15_Witness ==
    /\ ev.thrown /\ ev.err = "InvalidOpcode"
    /\ pc = "running" /\ steps = 2
    /\ cr.c[3] = OrdContSimple(Slice(Bytes(<<119>>), <<>>), CP0)
    /\ code = cr.c[3].code
    /\ stack = <<IntVal(0), IntVal(6)>>

\* C16: the state build() returns for a builder: the supplied stack, with
\* a 0 on top exactly when same_c3 and not without_push0; c0 = Quit(0),
\* c1 = Quit(1), c2 = ExcQuit, c3 = the code as an ordinary continuation
\* when same_c3, else Quit(11); c4 = the data cell or an empty cell, c5 = an
\* empty cell, c7 = the tuple or an empty one; steps = 0, nothing committed.
C16_BuildState ==
    ev.op = "build" =>
        LET b == ev.builder
        IN  /\ stack = IF b.same_c3 /\ ~b.without_push0
                       THEN Append(b.stack, IntVal(0)) ELSE b.stack
            /\ code = b.code
            /\ cr.c[1] = QuitCont(0) /\ cr.c[1] = QUIT0
            /\ cr.c[2] = QuitCont(1) /\ cr.c[2] = QUIT1
            /\ cr.c[3] = ExcQuitCont
            /\ cr.c[4] = IF b.same_c3
                         THEN OrdCont(b.code, ControlData(NoArgs, NoStack, EmptyRegs, CP0))
                         ELSE QuitCont(11)
            /\ cr.d[1] = IF b.data = NoCell THEN EmptyCell ELSE b.data
            /\ cr.d[2] = EmptyCell
            /\ cr.c7 = SomeStack(b.c7)
            /\ steps = 0
            /\ commited_state = NoCommit

\* C16 witness: a state built with same_c3, without_push0 and a stack of two
\* items, a data cell and a c7 tuple: no 0 is pushed
C16_Witness ==
    /\ ev.op = "build" /\ pc = "ready"
    /\ ev.builder.same_c3 /\ ev.builder.without_push0
    /\ stack = <<IntVal(3), IntVal(4)>>
    /\ cr.c[4].type = "ord" /\ cr.c[4].code = code /\ code # EmptySlice
    /\ cr.d[1] = GoodCell
    /\ cr.c7 = SomeStack(<<IntVal(1)>>)

(***************************************************************************)
(* Claims about the steps of run.                                          *)
(***************************************************************************)
\* the step is an iteration of run
Iteration == ev'.seq # ev.seq /\ ev'.op = "step"

\* C24: step dispatches the next opcode if data bits remain; else, if
\* references remain, it charges the load of reference 0 and jumps to an
\* ordinary continuation over that cell in the current codepage, the stack
\* and the control registers staying as they are; else it performs ret.
\* steps grows by 1 with every step and by 1 more when run handles an
\* exception, so it strictly increases during a run.
C24_StepChoice ==
    [][Iteration =>
          /\ ev'.branch = (IF code.bits # <<>> THEN "dispatch"
                           ELSE IF code.refs # <<>> THEN "jmpref" ELSE "ret")
          /\ (ev'.branch = "jmpref" /\ ~ev'.thrown) =>
                /\ gas.gas_remaining - gas'.gas_remaining =
                      (IF code.refs[1].hash \in gas.loaded_cells
                       THEN OLD_CELL_GAS ELSE NEW_CELL_GAS)
                /\ code' = SliceOf(code.refs[1])
                /\ cp' = cp
                /\ stack' = stack
                /\ cr' = cr
          /\ (ev'.branch = "jmpref" /\ ev'.thrown) => ev'.err = "Cancelled"
          /\ (ev'.branch = "ret" /\ ~ev'.thrown) =>
                \E r \in {ret([Vm EXCEPT !.steps = Inc(steps)])} :
                    /\ r.ok
                    /\ code' = r.st.code /\ cr' = r.st.cr /\ ev'.res = r.val
          /\ steps + 2 <= MaxSteps =>
                steps' = steps + (IF ev'.thrown THEN 2 ELSE 1)
          /\ steps < MaxSteps => steps' > steps]_vars

\* C24 witness: the program 77 with a reference has run its opcode, then
\* jumped to the referenced cell for 100 gas with 7 on the stack, and that
\* was the second step
C24_Witness ==
    /\ ev.op = "step" /\ ev.branch = "jmpref" /\ ~ev.thrown
    /\ code = SliceOf(CodeCell77)
    /\ stack = <<IntVal(7)>>
    /\ steps = 2
    /\ gas.loaded_cells = {CodeCell77.hash}

\* C26: when the handling of an exception fails itself, run returns at once
\* the exit code of this second exception: throw_exception is not called
\* again and no commit is attempted.
C26_DoubleException ==
    [][Iteration =>
          /\ (ev'.thrown /\ cr.c[3] = NoCont) => ev'.double = "InvalidOpcode"
          /\ ev'.double # "none" =>
                /\ ev'.thrown
                /\ pc' = "done"
                /\ result' = as_exit_code(ExceptionCode(ev'.double))
                /\ stack' = <<IntVal(0), IntVal(ExceptionCode(ev'.err))>>
                /\ code' = EmptySlice
                /\ ev'.commit = "none"
                /\ commited_state' = commited_state
                /\ steps + 2 <= MaxSteps => steps' = steps + 2]_vars

\* C26 witness: with c2 taken away and data that would commit, the step
\* ran out of gas and run has returned the exit code of InvalidOpcode,
\* nothing committed
C26_Witness ==
    /\ pc = "done"
    /\ ev.op = "step" /\ ev.err = "Cancelled" /\ ev.double = "InvalidOpcode"
    /\ result = as_exit_code(6)
    /\ stack = <<IntVal(0), IntVal(13)>>
    /\ cr.c[3] = NoCont
    /\ cr.d[1] = GoodCell
    /\ ~commited_state.some

\* C27: of the non-zero results of a step, run attempts the automatic
\* commit for -1 only; every other one, -2 included, is returned as it is
\* without a commit attempt.
C27_CommitOnlyOnMinusOne ==
    [][(Iteration /\ ev'.double = "none" /\ ev'.res # 0) =>
          /\ ev'.res = -1 => ev'.commit # "none"
          /\ ev'.res # -1 =>
                /\ ev'.commit = "none"
                /\ commited_state' = commited_state
                /\ pc' = "done"
                /\ result' = ev'.res]_vars

\* the entry of the current codepage that step dispatches to from the code
EntryAt(c) == lookup(Codepage(cp).opcodes, get_opcode_from_slice(c).opcode)

\* C25: dispatch of a Simple, Fixed or Ext entry first charges 10 plus the
\* bits of the entry, and only then fails with InvalidOpcode when the
\* cursor holds fewer bits, neither advancing the cursor nor invoking the
\* handler; otherwise Simple and Fixed advance the cursor by these bits
\* before the handler runs, and Ext leaves the advance to its handler.
C25_DispatchChargeThenLength ==
    [][(/\ ev'.seq # ev.seq /\ ev'.op = "step" /\ ev'.branch = "dispatch"
        /\ EntryAt(code).kind \in {"simple", "fixed", "ext"}) =>
          LET op == EntryAt(code)
              amount == GAS_PER_INSTRUCTION + op.bits * GAS_PER_BIT
          IN  IF gas.gas_remaining < amount
              THEN /\ ~ev'.ok /\ ev'.err = "Cancelled" /\ ev'.handler = "none"
                   /\ gas' = gas /\ code' = code /\ stack' = stack
              ELSE /\ gas'.gas_remaining = gas.gas_remaining - amount
                   /\ IF Len(code.bits) < op.bits
                      THEN /\ ~ev'.ok /\ ev'.err = "InvalidOpcode"
                           /\ ev'.handler = "none"
                           /\ code' = code /\ stack' = stack
                      ELSE /\ ev'.handler = op.exec
                           /\ op.kind \in {"simple", "fixed"} =>
                                 code' = skip_first(code, op.bits)
                           /\ op.kind = "ext" =>
                                 (IF ev'.ok
                                  THEN Len(code'.bits) < Len(code.bits) - op.bits
                                  ELSE code' = code)]_vars

\* C25 witness: 80 without its argument byte has been refused for 26 of the
\* 60 gas, the cursor still on it
C25_Witness ==
    /\ ev.op = "step" /\ ~ev.ok /\ ev.err = "InvalidOpcode" /\ ev.handler = "none"
    /\ code = Slice(Bytes(<<128>>), <<>>)
    /\ gas.gas_remaining = 60 - (GAS_PER_INSTRUCTION + 16 * GAS_PER_BIT)
    /\ stack = <<IntVal(3), IntVal(4)>>

(***************************************************************************)
(* Claims about the gas meter.                                             *)
(***************************************************************************)
\* the step is a call on the meter
MeterCall == ev'.seq # ev.seq /\ ev'.op \in {"try_consume", "load_cell", "finalize_cell"}

\* C17: try_consume(amount) succeeds exactly when amount <= gas_remaining
\* and then lowers gas_remaining by amount; otherwise it fails with the
\* out-of-gas error and leaves gas_remaining as it was. No charge makes
\* gas_remaining negative or raises it.
C17_TryConsume ==
    [][/\ (MeterCall /\ ev'.op = "try_consume") =>
              /\ ev'.ok = (ev'.args <= gas.gas_remaining)
              /\ ev'.ok => gas'.gas_remaining = gas.gas_remaining - ev'.args
              /\ ~ev'.ok => (gas' = gas /\ ExceptionCode(ev'.err) = 13)
       /\ MeterCall =>
              /\ gas'.gas_remaining >= 0
              /\ gas'.gas_remaining <= gas.gas_remaining]_vars

\* C17 witness: a charge of 600 has been refused on a meter that an earlier
\* charge took from 700 to 100
C17_Witness ==
    /\ ev.op = "try_consume" /\ ~ev.ok /\ ev.args = 600
    /\ gas.gas_remaining = 100
    /\ gas.loaded_cells = {}

\* C18: a gas-using load is charged 100 when no gas-using load was asked
\* for its hash before, and 25 otherwise; a load that does not use gas
\* charges nothing and does not mark the cell; finalize_cell is charged 500.
C18_CellLoadRates ==
    [][MeterCall =>
          LET rate == IF ev'.op = "finalize_cell" THEN 500
                      ELSE IF ev'.args \in loads.asked THEN 25 ELSE 100
          IN  /\ (ev'.op = "load_cell" /\ ev'.branch = "no_gas") =>
                    (ev'.ok /\ gas' = gas)
              /\ (ev'.op = "finalize_cell" \/ ev'.branch = "use_gas") =>
                    /\ ev'.ok = (rate <= gas.gas_remaining)
                    /\ ev'.ok => gas'.gas_remaining = gas.gas_remaining - rate
                    /\ ~ev'.ok => gas'.gas_remaining = gas.gas_remaining
              /\ ev'.op = "finalize_cell" => gas'.loaded_cells = gas.loaded_cells
              /\ ev'.branch = "use_gas" =>
                    (ev'.ok => gas'.loaded_cells = gas.loaded_cells \cup {ev'.args})]_vars

\* C18 witness: a cell loaded without gas, then with gas for 100, has been
\* loaded again for 25, after another cell was loaded for 100
C18_Witness ==
    /\ ev.op = "load_cell" /\ ev.branch = "use_gas" /\ ev.ok
    /\ loads.asked = {CodeCell77.hash, GoodCell.hash}
    /\ gas.loaded_cells = loads.asked
    /\ gas.gas_remaining = 700 - 100 - 100 - 25

\* C34: every hash of loaded_cells is one for which the rate of a new cell
\* was deducted; a gas-using load whose charge fails leaves gas_remaining
\* and loaded_cells as they were, so the cell is charged 100 at its next load.
C34_MarkedMeansPaid ==
    /\ [](gas.loaded_cells \subseteq loads.paid)
    /\ [][(MeterCall /\ ev'.op = "load_cell" /\ ev'.branch = "use_gas" /\ ~ev'.ok) =>
            gas' = gas]_vars

(***************************************************************************)
(* Claims about the operations of VmState.                                 *)
(***************************************************************************)
\* C10: whenever a step enters an instruction handler, c0 and c1 are set.
C10_ReturnRegistersSet ==
    [][(ev'.op = "step" /\ ev'.seq # ev.seq /\ ev'.handler # "none") =>
          (cr.c[1] # NoCont /\ cr.c[2] # NoCont)]_vars

\* the continuation carries no saved stack items
NoSavedStack(cont) ==
    ~HasControlData(cont) \/ ~cont.data.stack.some \/ cont.data.stack.items = <<>>

\* nargs.or(pass_args).or(prev_depth) for the continuation and pass_args of
\* a jump from a stack of depth prev_depth
TargetDepth(cont, pass_args, prev_depth) ==
    IF HasControlData(cont) /\ cont.data.nargs # NoArgs THEN cont.data.nargs
    ELSE IF pass_args # NoArgs THEN pass_args
    ELSE prev_depth

\* C11: after a jump_ext that passed its depth checks to a continuation
\* without a saved stack, the active stack is the top nargs (else pass_args,
\* else all) items of the previous stack, in their order.
C11_JumpDepth ==
    [][(/\ ev'.op = "jump_ext" /\ ev'.seq # ev.seq /\ ev'.ok
        /\ NoSavedStack(ev'.cont)) =>
          LET n == TargetDepth(ev'.cont, ev'.args, Len(stack))
          IN  /\ Len(stack') = n
              /\ n <= Len(stack)
              /\ \A i \in 1..n : stack'[i] = stack[Len(stack) - n + i]]_vars

\* C11 witness: a jump_ext with pass_args to a continuation with nargs and
\* no saved stack has cut a deeper stack down to its top nargs items
C11_Witness ==
    /\ ev.op = "jump_ext" /\ ev.ok
    /\ HasControlData(ev.cont) /\ ~ev.cont.data.stack.some
    /\ ev.cont.data.nargs = 1 /\ ev.args = 1
    /\ stack = <<IntVal(-1)>>
    /\ steps = 1

\* the ranges registered for codepage 0
RegisteredRanges == Ranges(RegisterAll(<<>>, Registrations))

\* the opcode word at the code cursor lies in no registered range
Unregistered(c) ==
    \A r \in RegisteredRanges :
        ~(r[1] <= get_opcode_from_slice(c).opcode /\ get_opcode_from_slice(c).opcode < r[2])

\* C14: a step that dispatches an opcode of no registered range with at
\* least 10 gas charges exactly 10 and fails with InvalidOpcode (code 6),
\* the code cursor and the stack as they were; the table of an empty builder
\* is one dummy entry with range (0, 0x1000000), which lookup returns for
\* any opcode and which behaves this way.
C14_UnknownOpcode ==
    [][/\ (/\ ev'.op = "step" /\ ev'.seq # ev.seq /\ ev'.branch = "dispatch"
           /\ Unregistered(code)
           /\ gas.gas_remaining >= 10) =>
              /\ ~ev'.ok /\ ev'.err = "InvalidOpcode" /\ ExceptionCode(ev'.err) = 6
              /\ ev'.handler = "none"
              /\ gas'.gas_remaining = gas.gas_remaining - 10
              /\ code' = code /\ stack' = stack
       /\ LET t == build(<<>>)
          IN  /\ Len(t) = 1
              /\ t[1][2].kind = "dummy" /\ range(t[1][2]) = <<0, 16777216>>
              /\ \A opcode \in Probes : lookup(t, opcode) = t[1][2]
              /\ gas.gas_remaining >= 10 =>
                    LET d == dispatch(t, Vm)
                    IN  /\ ~d.r.ok /\ d.r.err = "InvalidOpcode" /\ d.handler = "none"
                        /\ d.r.st = [Vm EXCEPT !.gas.gas_remaining = @ - 10]]_vars

\* C14 witness: the step on FFFFFF with 60 gas has failed with InvalidOpcode
\* and left 50 gas, the code and the stack in place
C14_Witness ==
    /\ ev.op = "step" /\ ev.err = "InvalidOpcode" /\ ev.branch = "dispatch"
    /\ steps = 1
    /\ gas.gas_remaining = 50
    /\ code = Slice(Bytes(<<255, 255, 255>>), <<>>)
    /\ stack = <<IntVal(3), IntVal(4)>>

(***************************************************************************)
(* Claims about the shaping of the stack.                                  *)
(***************************************************************************)
\* the nargs of cont, if it has control data and nargs
NargsOf(cont) == IF HasControlData(cont) THEN cont.data.nargs ELSE NoArgs

\* C22: jump_ext(cont, pass_args) on a continuation with a non-empty saved
\* stack S leaves as active stack S followed by the top next items of the
\* previous stack in their order, next being nargs, else pass_args, else the
\* previous depth; the depth is |S| + next and the bottom items are gone.
C22_JumpExtSavedStack ==
    [][(/\ ev'.seq # ev.seq /\ ev'.op = "jump_ext" /\ ev'.ok
        /\ HasControlData(ev'.cont)
        /\ ev'.cont.data.stack.some /\ ev'.cont.data.stack.items # <<>>) =>
          LET S == ev'.cont.data.stack.items
              next == IF ev'.cont.data.nargs # NoArgs THEN ev'.cont.data.nargs
                      ELSE IF ev'.args # NoArgs THEN ev'.args
                      ELSE Len(stack)
          IN  /\ Len(stack') = Len(S) + next
              /\ \A i \in 1..Len(S) : stack'[i] = S[i]
              /\ \A k \in 1..next : stack'[Len(S) + k] = stack[Len(stack) - next + k]]_vars

\* C22 witness: a continuation with nargs 1 and the saved stack 1 2, entered
\* with pass_args 2 from the stack 3 4 5, has the stack 1 2 5
C22_Witness ==
    /\ ev.op = "jump_ext" /\ ev.ok /\ ev.args = 2
    /\ NargsOf(ev.cont) = 1
    /\ ev.cont.data.stack = SomeStack(<<IntVal(1), IntVal(2)>>)
    /\ stack = <<IntVal(1), IntVal(2), IntVal(5)>>
    /\ code = ShapeCode

\* C23: jump_ext(cont, pass_args) fails with StackUnderflow when pass_args
\* or cont's nargs exceeds the depth of the stack, or when both are given
\* and nargs exceeds pass_args; the stack, the control registers and the
\* code cursor are then as they were before the call.
C23_JumpExtUnderflow ==
    [][(/\ ev'.seq # ev.seq /\ ev'.op = "jump_ext"
        /\ \/ OrZero(ev'.args) > Len(stack)
           \/ OrZero(NargsOf(ev'.cont)) > Len(stack)
           \/ (ev'.args # NoArgs /\ NargsOf(ev'.cont) # NoArgs
               /\ NargsOf(ev'.cont) > ev'.args)) =>
          /\ ~ev'.ok /\ ev'.err = "StackUnderflow"
          /\ stack' = stack
          /\ cr' = cr
          /\ code' = code /\ cp' = cp]_vars

\* C23 witness: a continuation with nargs 2 that saves c1, entered with
\* pass_args 1 from the stack 3 4 5, has been refused; c1 is still the
\* built one
C23_Witness ==
    /\ ev.op = "jump_ext" /\ ~ev.ok /\ ev.err = "StackUnderflow"
    /\ ev.args = 1 /\ NargsOf(ev.cont) = 2
    /\ ev.cont.data.save.c[2] = QUIT0
    /\ stack = <<IntVal(3), IntVal(4), IntVal(5)>>
    /\ cr.c[2] = QUIT1
    /\ code = Slice(Bytes(<<128, 255>>), <<>>)

\* C29: extract_cc(mode, stack_copy, nargs) loses no stack item: the
\* previous stack is the saved stack of the continuation returned followed
\* by the new active stack; with stack_copy = n the active stack holds the
\* top n items, with stack_copy absent it keeps all items and the saved
\* stack is empty.
C29_ExtractCCKeepsItems ==
    [][(ev'.seq # ev.seq /\ ev'.op = "extract_cc" /\ ev'.ok) =>
          /\ ev'.cont.data.stack.some
          /\ stack = ev'.cont.data.stack.items \o stack'
          /\ (ev'.args # NoArgs /\ ev'.args <= Len(stack)) =>
                stack' = TopItems(stack, ev'.args)
          /\ ev'.args = NoArgs =>
                (stack' = stack /\ ev'.cont.data.stack.items = <<>>)]_vars

(***************************************************************************)
(* Claims about calls and returns.                                         *)
(***************************************************************************)
\* cont has no saved registers, no saved stack and no nargs
SimpleCont(cont) ==
    /\ cont.type = "ord"
    /\ cont.data.nargs = NoArgs
    /\ ~cont.data.stack.some
    /\ cont.data.save = EmptyRegs

\* C19: call on a simple continuation enters it and leaves in c0 a return
\* continuation holding the caller's code cursor and the caller's c0; a
\* ret from the callee resumes at this cursor with c0 again the
\* continuation held before the call, so that nested calls return in turn.
C19_CallReturnNesting ==
    [][/\ (ev'.seq # ev.seq /\ ev'.op = "call" /\ ev'.ok /\ SimpleCont(ev'.cont)) =>
              /\ code' = ev'.cont.code
              /\ cr'.c[1] = OrdCont(code, ControlData(NoArgs, NoStack,
                                        [EmptyRegs EXCEPT !.c[1] = cr.c[1]], cp))
       /\ (/\ ev.op = "call" /\ ev.ok /\ SimpleCont(ev.cont)
           /\ ev'.seq # ev.seq /\ ev'.op = "ret" /\ ev'.ok) =>
              /\ code' = cr.c[1].code
              /\ cr'.c[1] = cr.c[1].data.save.c[1]]_vars

\* cont saves no c0, no stack and no nargs
PlainCall(cont) ==
    ~HasControlData(cont)
    \/ (cont.data.save.c[1] = NoCont /\ ~cont.data.stack.some /\ cont.data.nargs = NoArgs)

\* C21: call(cont) on a continuation without saved c0, saved stack and
\* nargs puts in c0 a new ordinary continuation over the caller's code
\* cursor and codepage that saves the previous c0, leaves the stack as it
\* was and enters cont; on a continuation that saves c0 it builds no return
\* continuation and does what jump(cont) does.
C21_CallReturnCont ==
    [][(ev'.seq # ev.seq /\ ev'.op = "call") =>
          /\ PlainCall(ev'.cont) =>
                /\ cr'.c[1] = OrdCont(code, ControlData(NoArgs, NoStack,
                                          [EmptyRegs EXCEPT !.c[1] = cr.c[1]], cp))
                /\ stack' = stack
                /\ \E entered \in {cont_jump([Vm EXCEPT !.cr.c[1] = cr'.c[1]], ev'.cont)} :
                      /\ Becomes(entered.st)
                      /\ ev'.ok = entered.ok
                /\ ev'.cont.type = "ord" => (ev'.ok /\ code' = ev'.cont.code)
          /\ (HasControlData(ev'.cont) /\ ev'.cont.data.save.c[1] # NoCont) =>
                \E jumped \in {jump(Vm, ev'.cont)} :
                      /\ Becomes(jumped.st)
                      /\ ev'.ok = jumped.ok
                      /\ cr'.c[1] \in {cr.c[1], ev'.cont.data.save.c[1]}]_vars

\* C21 witness: a call on a simple continuation over PUSHINT 7 from the
\* code 80FF has left the return continuation in c0 and the stack as
\* it was, after a call on a continuation that saves c0 built none
C21_Witness ==
    /\ ev.op = "call" /\ ev.ok /\ ev.seq = 2
    /\ ev.cont = OrdContSimple(Slice(Bytes(<<119>>), <<>>), CP0)
    /\ code = ev.cont.code
    /\ stack = <<IntVal(3), IntVal(4)>>
    /\ cr.c[1] = OrdCont(EmptySlice, ControlData(NoArgs, NoStack,
                              [EmptyRegs EXCEPT !.c[1] = QUIT0], CP0))

\* C20: call_ext(cont, pass_args, ret_args) succeeds or fails as
\* jump_ext(cont, pass_args) does from the same state and leaves the same
\* active stack; unless cont saves c0, c0 then holds a return continuation
\* with ret_args as its nargs.
C20_CallExtShapesLikeJumpExt ==
    [][(ev'.seq # ev.seq /\ ev'.op = "call_ext") =>
          \E j \in {jump_ext(Vm, ev'.cont, ev'.args)} :
              /\ ev'.ok = j.ok
              /\ ev'.ok =>
                    /\ stack' = j.st.stack
                    /\ (~HasControlData(ev'.cont) \/ ev'.cont.data.save.c[1] = NoCont) =>
                          /\ cr'.c[1] # NoCont
                          /\ cr'.c[1].type = "ord"
                          /\ cr'.c[1].data.nargs = ev'.ret_args]_vars

(***************************************************************************)
(* Claims about the arithmetic family.                                     *)
(***************************************************************************)
\* the number of operands of an instruction, and its mathematical result on
\* the operands on top of the items
Arity(op) == IF op \in BinaryOps THEN 2 ELSE 1

MathResult(op, items, imm) ==
    IF op \in BinaryOps
    THEN BinaryResult(op, RawOf(items[Len(items) - 1]), RawOf(items[Len(items)]))
    ELSE UnaryResult(op, RawOf(items[Len(items)]), imm)

\* C12: when the first step of run executes OP on integer operands, QOP on
\* the same state leaves the same stack if the mathematical result is in
\* [-2^256, 2^256); otherwise OP fails with IntegerOverflow and QOP
\* completes without exception with NaN in place of the result.
C12_QuietStrictDuality ==
    [][\A op \in ArithOps, imm \in ArithImms :
        (/\ Iterates /\ pc = "ready"
         /\ code = ArithCode(op, FALSE, imm)
         /\ ev'.handler = op
         /\ Len(stack) >= Arity(op)) =>
            LET q == run_iteration([Vm EXCEPT !.code = ArithCode(op, TRUE, imm)])
                m == MathResult(op, stack, imm)
                rest == SubSeq(stack, 1, Len(stack) - Arity(op))
            IN  q.info.handler # "none" =>
                  IF fits_257(m)
                  THEN /\ ev'.ok /\ q.info.ok
                       /\ stack' = q.st.stack
                       /\ stack' = Append(rest, BigVal(m.h, m.v))
                  ELSE /\ ~ev'.ok /\ ev'.err = "IntegerOverflow"
                       /\ q.info.ok /\ ~q.info.thrown
                       /\ q.st.stack = Append(rest, NaN)]_vars

\* C12 witness: QADD on two integers whose sum is out of range has completed
\* with NaN as the only item, and run goes on
C12_Witness ==
    /\ ev.handler = "qadd" /\ ev.ok /\ ~ev.thrown
    /\ stack = <<NaN>>
    /\ steps = 1 /\ pc = "running"

\* C13: executing the shortest PUSHINT form of x, for x negative or not,
\* leaves exactly x on top of the stack.
C13_PushIntRoundTrip ==
    [][\A x \in PushValues :
        (/\ Iterates /\ pc = "ready"
         /\ code = PushIntCode(x)
         /\ ev'.handler # "none") =>
            /\ ev'.ok
            /\ stack' = Append(stack, IntVal(x))]_vars

\* the handler of the quiet form of an instruction
QuietName(op) ==
    CASE op = "add" -> "qadd" [] op = "sub" -> "qsub" [] op = "subr" -> "qsubr"
      [] op = "negate" -> "qnegate" [] op = "inc" -> "qinc" [] op = "dec" -> "qdec"
      [] op = "addint" -> "qaddint" [] op = "mulint" -> "qmulint" [] op = "mul" -> "qmul"

\* the byte of the code that starts at bit from + 1
ByteAt(c, from) == BitsValue(SubSeq(c.bits, from + 1, from + 8), 8)

\* the mathematical value a push form is to push, read from its code
PushedValue(handler, c) ==
    CASE handler = "push_pow2" -> Pow2(ByteAt(c, 8) + 1)
      [] handler = "push_pow2dec" -> BigSub(Pow2(ByteAt(c, 8) + 1), Raw(0, 0, 1))
      [] handler = "push_negpow2" -> BigNeg(Pow2(ByteAt(c, 8) + 1))
      [] handler = "push_int" ->
            BigBitsValue(SubSeq(c.bits, 14, Len(c.bits)),
                         3 + 8 * ((BitsValue(c.bits, 13) % 32) + 2))

\* every integer of the stack is in range, and NaN is no integer
StackInRange ==
    \A i \in 1..Len(stack) :
        /\ stack[i].t \in {"int", "nan"}
        /\ stack[i].t = "int" => fits_257(RawOf(stack[i]))
        /\ stack[i].t = "nan" <=> stack[i] = NaN

C31_BinaryResults ==
    [][\A op \in BinaryOps :
        (/\ Iterates /\ ev'.handler = op
         /\ Len(stack) >= 2
         /\ stack[Len(stack)].t = "int" /\ stack[Len(stack) - 1].t = "int") =>
            LET y == RawOf(stack[Len(stack)])
                x == RawOf(stack[Len(stack) - 1])
                m == CASE op = "add" -> Raw(0, x.h + y.h, x.v + y.v)
                       [] op = "sub" -> Raw(0, x.h - y.h, x.v - y.v)
                       [] op = "subr" -> Raw(0, y.h - x.h, y.v - x.v)
                       [] op = "mul" -> Raw(x.h * y.h, x.h * y.v + x.v * y.h, x.v * y.v)
            IN  fits_257(m) =>
                  /\ ev'.ok
                  /\ Len(stack') = Len(stack) - 1
                  /\ stack'[Len(stack')] = BigVal(m.h, m.v)
                  /\ SubSeq(stack', 1, Len(stack') - 1)
                        = SubSeq(stack, 1, Len(stack) - 2)]_vars

\* C31 witness: ADD on 3 and 4 above 2^255 has left 7 above 2^255
C31_Witness ==
    /\ ev.handler = "add" /\ ev.ok
    /\ stack = <<BigVal(1, 0), IntVal(7)>>

\* C32: a quiet arithmetic instruction on a stack with fewer items than it
\* has operands fails with StackUnderflow, as its strict form does from the
\* same state and with the same stack left; no NaN is pushed.
C32_UnderflowNotQuiet ==
    [][\A op \in ArithOps :
        (/\ Iterates /\ ev'.handler = QuietName(op)
         /\ Len(stack) < Arity(op)) =>
            /\ ~ev'.ok /\ ev'.err = "StackUnderflow"
            /\ \A i \in 1..Len(stack') : stack'[i] # NaN
            /\ \A imm \in ArithImms :
                  code = ArithCode(op, TRUE, imm) =>
                      LET p == run_iteration([Vm EXCEPT !.code = ArithCode(op, FALSE, imm)])
                      IN  p.info.handler = op =>
                            /\ ~p.info.ok /\ p.info.err = ev'.err
                            /\ p.info.thrown = ev'.thrown
                            /\ p.st.stack = stack'
                            /\ p.result = result']_vars

\* C32 witness: QADD on fewer than two items has failed with StackUnderflow,
\* and run has handled the exception
C32_Witness ==
    /\ ev.handler = "qadd" /\ ~ev.ok /\ ev.err = "StackUnderflow"
    /\ ev.thrown /\ steps >= 1
====
